---- MODULE Spec2Model ----
(***************************************************************************)
(* Prerequisite-graph engine of the curriculum visualizer                  *)
(* (transitiveReduceLinks, calculateProgressionMetrics, expandSkillToken). *)
(*                                                                         *)
(* Every function of the engine is a pure function of its arguments.  Each *)
(* is checked under a specification of its own whose Init draws the        *)
(* arguments from bounded sets and whose actions apply the function:       *)
(*   SpecTR  - transitiveReduceLinks, applied once and then to its output  *)
(*   SpecPM  - calculateProgressionMetrics, one action per loop iteration  *)
(*   SpecTok - expandSkillToken on generated token strings                 *)
(*   SpecBM  - buildPrerequisiteModel, one action per appendix entry read, *)
(*             then the masterLinks filter of initializeApp                *)
(*   SpecCPM - computeProgressMetrics, applied, applied again, and applied *)
(*             after one more skill was mastered                           *)
(*   SpecE2E - buildPrerequisiteModel then computeProgressMetrics on the   *)
(*             three-skill scenario                                        *)
(*   SpecNL  - calculateNodeLevels on node objects that hold scratch       *)
(*             fields of an earlier run, applied and applied again         *)
(*   SpecApp - the handlers of main.ts that write localStorage: status     *)
(*             changes, student slots, renaming, reset                     *)
(*   SpecSlots - SpecApp with status changes and slot switches only        *)
(*   SpecAG  - updateActiveGraph after status changes and the toggles of   *)
(*             'remove not-started' and 'transitive reduction'             *)
(*                                                                         *)
(* Node ids are opaque map keys in the code (compared only for equality),  *)
(* so a node list of k distinct ids is taken to be <<1, ..., k>>; id 0 is  *)
(* an id that no node list holds (a dangling link endpoint).               *)
(***************************************************************************)
EXTENDS Integers, Sequences, FiniteSets, TLC

VARIABLES
    nodes,          \* the node list argument (sequence of distinct ids)
    links,          \* the link list argument (sequence of link objects)
    trPc,           \* SpecTR: "input" | "reduced" | "twice"
    reduced,        \* SpecTR: transitiveReduceLinks(nodes, links)
    reducedTwice,   \* SpecTR: transitiveReduceLinks(nodes, reduced)
    pmPc,           \* SpecPM: "input" | "kahn" | "done" | "threw"
    pm,             \* SpecPM: the locals of calculateProgressionMetrics
    depthById,      \* SpecPM: returned depthById
    scoreById,      \* SpecPM: returned scoreById (rationals <<num, den>>)
    maxDepth,       \* SpecPM: returned maxDepth
    tokPc,          \* SpecTok: "input" | "expanded"
    tokShape,       \* SpecTok: how the token text was put together
    token,          \* SpecTok: the token argument (sequence of characters)
    expanded,       \* SpecTok: expandSkillToken(token), a list of id strings
    validNodeIds,   \* SpecBM: the validNodeIds argument (a set of id strings)
    appendixAData,  \* SpecE2E: the appendixAData argument, a list of entries
    bmPc,           \* SpecBM: "targets" | "entries" | "done" | "linked"; SpecE2E: "given" | "done"
    bm,             \* SpecBM: the locals of buildPrerequisiteModel
    groupsByTarget, \* returned groupsByTarget; argument of computeProgressMetrics
    edgeTypeByKey,  \* returned edgeTypeByKey
    groupCountByTarget, \* returned groupCountByTarget
    masterLinks,    \* SpecBM: masterLinks of initializeApp
    cpmPc,          \* SpecCPM: "input" | "computed" | "again" | "changed"
    progressStateById, \* the progressStateById argument
    metrics,        \* computeProgressMetrics(...) of the latest call
    metricsBefore,  \* the metrics of the call before the latest
    nlPc,           \* SpecNL: "input" | "levelled" | "again"
    nlObjs,         \* SpecNL: inDegree, outLinks and level of each node object
    nlRet,          \* SpecNL: calculateNodeLevels(nodes, links) of the latest call
    nlBefore,       \* SpecNL: the levels before the latest call, and the return
                    \* value of the call before it
    localStorage,   \* SpecApp: the stored items, by key
    progressState,  \* SpecApp: progressState of main.ts
    activeStudentIndex, \* SpecApp: activeStudentIndex of main.ts
    lastCall,       \* SpecApp: the handler that ran last, with its argument
    progressWhenLeft, \* SpecApp: per slot, the progress state it had when the
                    \* application last switched away from it (history)
    settings,       \* SpecApp: settings of main.ts (the two that select the graph)
    displayed       \* SpecApp: what updateActiveGraph last handed to redrawGraph

trVars == <<trPc, reduced, reducedTwice>>
pmVars == <<pmPc, pm, depthById, scoreById, maxDepth>>
tokVars == <<tokPc, tokShape, token, expanded>>
bmVars == <<validNodeIds, appendixAData, bmPc, bm, groupsByTarget, edgeTypeByKey,
            groupCountByTarget, masterLinks>>
cpmVars == <<cpmPc, progressStateById, metrics, metricsBefore>>
nlVars == <<nlPc, nlObjs, nlRet, nlBefore>>
stVars == <<localStorage, progressState, activeStudentIndex, lastCall, progressWhenLeft,
            settings, displayed>>
appVars == <<nlVars, stVars>>
vars == <<nodes, links, trVars, pmVars, tokVars, bmVars, cpmVars, appVars>>

\* ------------------------------------------------------------------ bounds
MaxNodes == 3
MaxLinks == 3
MaxNum == 11
MaxEntries == 2
MaxEdges == 1
MaxSkills == 2
MaxGroups == 2
MaxLevelNodes == 3
MaxLevelLinks == 2
MaxSlots == 2
MaxTracked == 1
MaxShownNodes == 2
MaxShownLinks == 2

\* ----------------------------------------------------------------- helpers
Range(s) == {s[i] : i \in 1..Len(s)}

\* The ids a link may name for a node list of k nodes: its nodes and id 0.
LinkIds(ns) == 0..Len(ns)

\* A link object: its endpoints and its identity (position in the input list,
\* standing for the JavaScript object reference).
Link(s, t, u) == [source |-> s, target |-> t, uid |-> u]

NodeIdLists == {[i \in 1..k |-> i] : k \in 0..MaxNodes}

\* ls is a list of at most MaxLinks link objects with endpoints in ids.
IsLinkList(ls, ids) ==
    \E k \in 0..MaxLinks : \E f \in [1..k -> ids \X ids] :
        ls = [i \in 1..k |-> Link(f[i][1], f[i][2], i)]

\* getNodeId: a link endpoint is an id or a node object; both yield the id.
getNodeId(x) == x

edgeKey(l) == <<getNodeId(l.source), getNodeId(l.target)>>

\* The token parser is not in use (SpecTR, SpecPM).
TokIdle == tokPc = "idle" /\ tokShape = <<>> /\ token = <<>> /\ expanded = <<>>

\* The model builder is not in use.
BMIdle ==
    /\ validNodeIds = {} /\ appendixAData = <<>> /\ bmPc = "idle" /\ bm = <<>>
    /\ groupsByTarget = <<>> /\ edgeTypeByKey = <<>> /\ groupCountByTarget = <<>>
    /\ masterLinks = <<>>

\* The progress metrics calculator is not in use.
CPMIdle ==
    cpmPc = "idle" /\ progressStateById = <<>> /\ metrics = <<>> /\ metricsBefore = <<>>

\* The levelling is not in use.
NLIdle == nlPc = "idle" /\ nlObjs = <<>> /\ nlRet = 0 /\ nlBefore = <<>>

\* The application is not running.
StIdle ==
    /\ localStorage = <<>> /\ progressState = <<>> /\ activeStudentIndex = <<>>
    /\ lastCall = <<>> /\ progressWhenLeft = <<>> /\ settings = <<>> /\ displayed = <<>>

AppIdle == NLIdle /\ StIdle

\* --------------------------------------------------- transitiveReduceLinks
\* uniqueLinks.values(): links with both endpoints in the node set, first
\* occurrence per key, in insertion order.
RECURSIVE uniqueLinksFrom(_, _, _, _)
uniqueLinksFrom(nodeSet, ls, i, acc) ==
    IF i > Len(ls) THEN acc
    ELSE LET l == ls[i]
             skip == \/ getNodeId(l.source) \notin nodeSet
                     \/ getNodeId(l.target) \notin nodeSet
                     \/ \E j \in 1..Len(acc) : edgeKey(acc[j]) = edgeKey(l)
         IN uniqueLinksFrom(nodeSet, ls, i + 1, IF skip THEN acc ELSE Append(acc, l))

\* Mutant: the uniqueLinks.has(edgeKey) test is missing.
uniqueLinksNoDedup(ns, ls) ==
    SelectSeq(ls, LAMBDA l : getNodeId(l.source) \in Range(ns)
                             /\ getNodeId(l.target) \in Range(ns))

uniqueLinks(ns, ls) == uniqueLinksFrom(Range(ns), ls, 1, <<>>)

\* outIds.get(id): targets of the unique links leaving id, in insertion order.
RECURSIVE outIdsFrom(_, _, _)
outIdsFrom(uniq, id, i) ==
    IF i > Len(uniq) THEN <<>>
    ELSE IF getNodeId(uniq[i].source) = id
         THEN <<getNodeId(uniq[i].target)>> \o outIdsFrom(uniq, id, i + 1)
         ELSE outIdsFrom(uniq, id, i + 1)

trOutIds(ns, uniq) == [id \in Range(ns) |-> outIdsFrom(uniq, id, 1)]

trInDegree(ns, uniq) ==
    [id \in Range(ns) |->
        Cardinality({i \in 1..Len(uniq) : getNodeId(uniq[i].target) = id})]

\* The inner for-loop of the Kahn pass: decrement each successor's remaining
\* in-degree and enqueue it when that reaches exactly 0.
RECURSIVE trRelax(_, _, _, _)
trRelax(succ, i, queue, remaining) ==
    IF i > Len(succ) THEN [queue |-> queue, remaining |-> remaining]
    ELSE LET nextId == succ[i]
             nextRemaining == remaining[nextId] - 1
         IN trRelax(succ, i + 1,
                    IF nextRemaining = 0 THEN Append(queue, nextId) ELSE queue,
                    [remaining EXCEPT ![nextId] = nextRemaining])

\* while (head < queue.length): topo is the queue once the loop is over.
RECURSIVE trKahn(_, _, _, _)
trKahn(outIds, queue, head, remaining) ==
    IF head > Len(queue) THEN queue
    ELSE LET r == trRelax(outIds[queue[head]], 1, queue, remaining)
         IN trKahn(outIds, r.queue, head + 1, r.remaining)

trTopo(ns, uniq) ==
    LET inDeg == trInDegree(ns, uniq)
    IN trKahn(trOutIds(ns, uniq), SelectSeq(ns, LAMBDA id : inDeg[id] = 0), 1, inDeg)

\* descendants, built in reverse topological order.
RECURSIVE trDescendants(_, _, _, _)
trDescendants(outIds, topo, index, desc) ==
    IF index < 1 THEN desc
    ELSE LET sourceId == topo[index]
             succ == Range(outIds[sourceId])
             sourceDesc == succ \cup UNION {desc[t] : t \in succ}
         IN trDescendants(outIds, topo, index - 1, [desc EXCEPT ![sourceId] = sourceDesc])

\* Mutant: looks the target up in the descendants of the source itself.
trRedundantViaSource(outIds, desc, l) ==
    \E k \in 1..Len(outIds[getNodeId(l.source)]) :
        LET neighborId == outIds[getNodeId(l.source)][k]
        IN neighborId # getNodeId(l.target)
           /\ getNodeId(l.target) \in desc[getNodeId(l.source)]

\* Mutant: only the first direct successor of the source is looked at.
trRedundantFirstNeighbor(outIds, desc, l) ==
    /\ Len(outIds[getNodeId(l.source)]) > 0
    /\ LET neighborId == outIds[getNodeId(l.source)][1]
       IN neighborId # getNodeId(l.target) /\ getNodeId(l.target) \in desc[neighborId]

\* Mutant: the redundancy flag is inverted (redundant edges are the ones kept).
trRedundantInverted(outIds, desc, l) ==
    ~\E k \in 1..Len(outIds[getNodeId(l.source)]) :
        LET neighborId == outIds[getNodeId(l.source)][k]
        IN neighborId # getNodeId(l.target) /\ getNodeId(l.target) \in desc[neighborId]

\* An edge is redundant when another direct successor of its source reaches
\* its target.
trRedundant(outIds, desc, l) ==
    \E k \in 1..Len(outIds[getNodeId(l.source)]) :
        LET neighborId == outIds[getNodeId(l.source)][k]
        IN neighborId # getNodeId(l.target) /\ getNodeId(l.target) \in desc[neighborId]

\* Mutant: on a non-DAG the raw input list is returned, not uniqueLinks.
transitiveReduceLinksRawOnCycle(ns, ls) ==
    IF Len(ns) = 0 \/ Len(ls) = 0 THEN ls
    ELSE LET uniq == uniqueLinks(ns, ls)
             outIds == trOutIds(ns, uniq)
             topo == trTopo(ns, uniq)
         IN IF Len(topo) # Len(ns) THEN ls
            ELSE LET desc == trDescendants(outIds, topo, Len(topo),
                                           [id \in Range(ns) |-> {}])
                 IN SelectSeq(uniq, LAMBDA l : ~trRedundant(outIds, desc, l))

transitiveReduceLinks(ns, ls) ==
    IF Len(ns) = 0 \/ Len(ls) = 0 THEN ls
    ELSE LET uniq == uniqueLinks(ns, ls)
             outIds == trOutIds(ns, uniq)
             topo == trTopo(ns, uniq)
         IN IF Len(topo) # Len(ns) THEN uniq
            ELSE LET desc == trDescendants(outIds, topo, Len(topo),
                                           [id \in Range(ns) |-> {}])
                 IN SelectSeq(uniq, LAMBDA l : ~trRedundant(outIds, desc, l))

\* ------------------------------------------------------------------ SpecTR
InitTR ==
    /\ AppIdle
    /\ nodes \in NodeIdLists
    /\ IsLinkList(links, LinkIds(nodes))
    /\ trPc = "input"
    /\ reduced = <<>>
    /\ reducedTwice = <<>>
    /\ pmPc = "idle"
    /\ pm = <<>>
    /\ depthById = <<>>
    /\ scoreById = <<>>
    /\ maxDepth = 0
    /\ TokIdle
    /\ BMIdle
    /\ CPMIdle

\* activeLinks = transitiveReduceLinks(activeNodes, filteredLinks)
Reduce ==
    /\ trPc = "input"
    /\ reduced' = transitiveReduceLinks(nodes, links)
    /\ trPc' = "reduced"
    /\ UNCHANGED <<nodes, links, reducedTwice, pmVars, tokVars, appVars, bmVars, cpmVars>>

\* the reducer applied to its own output
ReduceAgain ==
    /\ trPc = "reduced"
    /\ reducedTwice' = transitiveReduceLinks(nodes, reduced)
    /\ trPc' = "twice"
    /\ UNCHANGED <<nodes, links, reduced, pmVars, tokVars, appVars, bmVars, cpmVars>>

NextTR == Reduce \/ ReduceAgain

SpecTR == InitTR /\ [][NextTR]_vars

\* --------------------------------------------- calculateProgressionMetrics
\* Numbers that the code holds as floating-point fractions are exact rationals
\* <<num, den>> here; den = 0 stands for NaN (the result of 0 / 0).
Max2(a, b) == IF a >= b THEN a ELSE b

\* Math.max(...values), Math.min(...values) of a non-empty set of integers.
MaxOf(S) == CHOOSE m \in S : \A x \in S : x <= m
MinOf(S) == CHOOSE m \in S : \A x \in S : m <= x

\* clamp01 = Math.max(0, Math.min(1, value)); NaN stays NaN.
clamp01(value) ==
    IF value[2] = 0 THEN value
    ELSE IF value[1] < 0 THEN <<0, 1>>
    ELSE IF value[1] > value[2] THEN <<1, 1>>
    ELSE value

\* Mutant: every link is taken, whether or not the maps hold its endpoints.
pmLinkNeverSkipped(st, l) == FALSE

\* if (!outgoing.has(sourceId) || !incoming.has(targetId)) return;
pmLinkSkipped(st, l) ==
    \/ getNodeId(l.source) \notin DOMAIN st.outgoing
    \/ getNodeId(l.target) \notin DOMAIN st.incoming

\* One pass of links.forEach; outgoing.get(id)!.push on a missing entry throws.
pmAddLink(st, l) ==
    LET sourceId == getNodeId(l.source)
        targetId == getNodeId(l.target)
    IN IF st.threw \/ pmLinkSkipped(st, l) THEN st
       ELSE IF sourceId \notin DOMAIN st.outgoing \/ targetId \notin DOMAIN st.incoming
            THEN [st EXCEPT !.threw = TRUE]
       ELSE [st EXCEPT !.outgoing[sourceId] = Append(@, targetId),
                       !.incoming[targetId] = Append(@, sourceId),
                       !.inDegree[targetId] = @ + 1,
                       !.outDegree[sourceId] = @ + 1]

RECURSIVE pmAddLinks(_, _, _)
pmAddLinks(st, ls, i) ==
    IF i > Len(ls) THEN st ELSE pmAddLinks(pmAddLink(st, ls[i]), ls, i + 1)

\* The locals after the adjacency maps, remainingInDegree, depth and the
\* initial queue are set up; head is 1-based here.
pmSetup(ns, ls) ==
    LET ids == Range(ns)
        adj == pmAddLinks([incoming |-> [id \in ids |-> <<>>],
                           outgoing |-> [id \in ids |-> <<>>],
                           inDegree |-> [id \in ids |-> 0],
                           outDegree |-> [id \in ids |-> 0],
                           threw |-> FALSE], ls, 1)
    IN [incoming |-> adj.incoming, outgoing |-> adj.outgoing,
        inDegree |-> adj.inDegree, outDegree |-> adj.outDegree,
        threw |-> adj.threw,
        remainingInDegree |-> adj.inDegree,
        depth |-> [id \in ids |-> 0],
        queue |-> SelectSeq(ns, LAMBDA id : adj.inDegree[id] = 0),
        head |-> 1]

\* Mutant: the smaller of the two depths is kept once a depth is set.
pmNextDepthShortest(old, currentDepth) ==
    IF old = 0 \/ currentDepth + 1 < old THEN currentDepth + 1 ELSE old

\* Mutant: the successor's depth is set to the current depth, without + 1.
pmNextDepthNoIncrement(old, currentDepth) == Max2(old, currentDepth)

\* Math.max(depth.get(nextId) ?? 0, currentDepth + 1)
pmNextDepth(old, currentDepth) == Max2(old, currentDepth + 1)

\* neighbors.forEach of one loop iteration.
RECURSIVE pmRelax(_, _, _, _)
pmRelax(st, currentDepth, neighbors, i) ==
    IF i > Len(neighbors) THEN st
    ELSE LET nextId == neighbors[i]
             nextRemaining == st.remainingInDegree[nextId] - 1
         IN pmRelax([st EXCEPT !.depth[nextId] = pmNextDepth(@, currentDepth),
                               !.remainingInDegree[nextId] = nextRemaining,
                               !.queue = IF nextRemaining = 0 THEN Append(@, nextId) ELSE @],
                    currentDepth, neighbors, i + 1)

\* One iteration of while (head < queue.length).
pmDequeue(st) ==
    LET currentId == st.queue[st.head]
    IN pmRelax([st EXCEPT !.head = @ + 1], st.depth[currentId], st.outgoing[currentId], 1)

\* Mutant: the estimate is the largest prerequisite depth, without + 1.
pmEstimatedDepthNoIncrement(depth, prereqs) ==
    MaxOf({depth[prereqs[k]] : k \in 1..Len(prereqs)})

\* Math.max(...prereqs.map(depth.get)) + 1
pmEstimatedDepth(depth, prereqs) ==
    MaxOf({depth[prereqs[k]] : k \in 1..Len(prereqs)}) + 1

\* Mutant: every estimate reads the depths the Kahn pass left.
pmEstimateFromKahnDepths(incoming, unresolvedIds, i, depth) ==
    [id \in DOMAIN depth |->
        IF id \in Range(unresolvedIds) /\ Len(incoming[id]) > 0
        THEN pmEstimatedDepth(depth, incoming[id]) ELSE depth[id]]

\* unresolvedIds.forEach: each estimate reads the depths as they are by then.
RECURSIVE pmEstimate(_, _, _, _)
pmEstimate(incoming, unresolvedIds, i, depth) ==
    IF i > Len(unresolvedIds) THEN depth
    ELSE LET id == unresolvedIds[i]
             prereqs == incoming[id]
         IN pmEstimate(incoming, unresolvedIds, i + 1,
                       IF Len(prereqs) = 0 THEN depth
                       ELSE [depth EXCEPT ![id] = pmEstimatedDepth(depth, prereqs)])

pmFinalDepth(ns, st) ==
    pmEstimate(st.incoming, SelectSeq(ns, LAMBDA id : st.remainingInDegree[id] > 0),
               1, st.depth)

\* Math.max(1, ...map.values())
pmMaxOr1(f) == MaxOf({1} \cup {f[id] : id \in DOMAIN f})

\* raw = 0.70 depthNorm + 0.45 inDegreeNorm - 0.25 outDegreeNorm, as the
\* numerator over the common denominator 100 maxDepth maxInDegree maxOutDegree
\* (mD, mI, mO below).
pmRawScore(st, depth, mD, mI, mO, id) ==
    70 * depth[id] * mI * mO + 45 * st.inDegree[id] * mD * mO
    - 25 * st.outDegree[id] * mD * mI

\* rawScores: the three maxima are taken once, then one score per node.
pmRawScores(ns, st, depth) ==
    LET mD == pmMaxOr1(depth)
        mI == pmMaxOr1(st.inDegree)
        mO == pmMaxOr1(st.outDegree)
    IN [id \in Range(ns) |-> pmRawScore(st, depth, mD, mI, mO, id)]

\* Mutant: the rawMax === rawMin branch is missing.
pmNormalizedNoEqualBranch(ns, st, depth) ==
    LET raw == pmRawScores(ns, st, depth)
        rawValues == {raw[id] : id \in Range(ns)}
        rawMin == MinOf(rawValues)
        rawMax == MaxOf(rawValues)
    IN IF rawValues = {} THEN <<>>
       ELSE [id \in Range(ns) |-> clamp01(<<raw[id] - rawMin, rawMax - rawMin>>)]

\* Mutant: the equal-scores branch stores 0 instead of 0.5.
pmNormalizedEqualIsZero(ns, st, depth) ==
    LET raw == pmRawScores(ns, st, depth)
        rawValues == {raw[id] : id \in Range(ns)}
        rawMin == MinOf(rawValues)
        rawMax == MaxOf(rawValues)
    IN IF rawValues = {} THEN <<>>
       ELSE IF rawMax = rawMin THEN [id \in Range(ns) |-> <<0, 1>>]
       ELSE [id \in Range(ns) |-> clamp01(<<raw[id] - rawMin, rawMax - rawMin>>)]

\* normalized: 0.5 for all when rawMax === rawMin, else min-max normalisation.
\* With no node, rawMin = Infinity and rawMax = -Infinity differ and the else
\* branch loops over nothing.
pmNormalized(ns, st, depth) ==
    LET raw == pmRawScores(ns, st, depth)
        rawValues == {raw[id] : id \in Range(ns)}
        rawMin == MinOf(rawValues)
        rawMax == MaxOf(rawValues)
    IN IF rawValues = {} THEN <<>>
       ELSE IF rawMax = rawMin THEN [id \in Range(ns) |-> <<1, 2>>]
       ELSE [id \in Range(ns) |-> clamp01(<<raw[id] - rawMin, rawMax - rawMin>>)]

\* ------------------------------------------------------------------ SpecPM
InitPM ==
    /\ AppIdle
    /\ nodes \in NodeIdLists
    /\ IsLinkList(links, LinkIds(nodes))
    /\ trPc = "idle"
    /\ reduced = <<>>
    /\ reducedTwice = <<>>
    /\ pmPc = "input"
    /\ pm = <<>>
    /\ depthById = <<>>
    /\ scoreById = <<>>
    /\ maxDepth = 0
    /\ TokIdle
    /\ BMIdle
    /\ CPMIdle

\* lines 147-168: maps, degrees, remainingInDegree, depth, the initial queue
PMSetup ==
    /\ pmPc = "input"
    /\ pm' = pmSetup(nodes, links)
    /\ pmPc' = IF pm'.threw THEN "threw" ELSE "kahn"
    /\ UNCHANGED <<nodes, links, trVars, tokVars, appVars, depthById, scoreById, maxDepth, bmVars, cpmVars>>

\* lines 170-183: one iteration of the Kahn loop
PMDequeue ==
    /\ pmPc = "kahn"
    /\ pm.head <= Len(pm.queue)
    /\ pm' = pmDequeue(pm)
    /\ UNCHANGED <<nodes, links, trVars, tokVars, appVars, pmPc, depthById, scoreById, maxDepth, bmVars, cpmVars>>

\* lines 185-225: the loop is over; cycle fallback, scores, return
PMFinish ==
    /\ pmPc = "kahn"
    /\ pm.head > Len(pm.queue)
    /\ LET depth == pmFinalDepth(nodes, pm)
       IN /\ depthById' = depth
          /\ scoreById' = pmNormalized(nodes, pm, depth)
          /\ maxDepth' = pmMaxOr1(depth)
    /\ pmPc' = "done"
    /\ UNCHANGED <<nodes, links, trVars, tokVars, appVars, pm, bmVars, cpmVars>>

NextPM == PMSetup \/ PMDequeue \/ PMFinish

SpecPM == InitPM /\ [][NextPM]_vars


\* -------------------------------------------------------- expandSkillToken
\* A string is a sequence of one-character strings.
\* Characters outside ASCII are named: U+2013, U+2014, U+00E2, U+20AC.
EnDash == "U+2013"
EmDash == "U+2014"
Mojibake == <<"U+00E2", "U+20AC", "\"">>

IsLetter(c) ==
    c \in {"A", "B", "C", "D", "E", "G", "L", "N", "O", "R", "S", "T",
           "a", "b", "d", "e", "l", "n", "o", "r", "s", "t", "&"}
IsDigit(c) == c \in {"0", "1", "2", "3", "4", "5", "6", "7", "8", "9"}
IsSpace(c) == c \in {" ", "\t"}
IsDash(c) == c \in {EnDash, "-"}

\* String.prototype.toUpperCase, on the letters in use.
upperChar(c) ==
    CASE c = "a" -> "A" [] c = "d" -> "D" [] c = "t" -> "T"
      [] c = "s" -> "S" [] c = "l" -> "L" [] c = "b" -> "B"
      [] c = "e" -> "E" [] c = "n" -> "N" [] c = "o" -> "O"
      [] c = "r" -> "R" [] OTHER -> c
toUpperCase(str) == [i \in 1..Len(str) |-> upperChar(str[i])]

\* .replace(/<U+00E2><U+20AC>"/g, <U+2013>): every occurrence, left to right.
RECURSIVE replaceMojibake(_)
replaceMojibake(str) ==
    IF Len(str) = 0 THEN <<>>
    ELSE IF Len(str) >= 3 /\ SubSeq(str, 1, 3) = Mojibake
         THEN <<EnDash>> \o replaceMojibake(SubSeq(str, 4, Len(str)))
         ELSE <<str[1]>> \o replaceMojibake(Tail(str))

\* .replace(/[<U+2014>]/g, <U+2013>)
replaceEmDash(str) == [i \in 1..Len(str) |-> IF str[i] = EmDash THEN EnDash ELSE str[i]]

\* .replace(/\s+/g, ' ')
RECURSIVE collapseSpaces(_)
collapseSpaces(str) ==
    IF Len(str) = 0 THEN <<>>
    ELSE IF IsSpace(str[1])
         THEN IF Len(str) >= 2 /\ IsSpace(str[2])
              THEN collapseSpaces(Tail(str))
              ELSE <<" ">> \o collapseSpaces(Tail(str))
         ELSE <<str[1]>> \o collapseSpaces(Tail(str))

\* .trim()
RECURSIVE trimStart(_)
trimStart(str) ==
    IF Len(str) > 0 /\ IsSpace(str[1]) THEN trimStart(Tail(str)) ELSE str
RECURSIVE trimEnd(_)
trimEnd(str) ==
    IF Len(str) > 0 /\ IsSpace(str[Len(str)])
    THEN trimEnd(SubSeq(str, 1, Len(str) - 1)) ELSE str
trim(str) == trimEnd(trimStart(str))

\* A null or undefined value (not a string).
NullValue == <<"null">>

\* if (value == null) return ''; otherwise replace, replace, replace, trim.
normalizeTokenText(value) ==
    IF value = NullValue THEN <<>>
    ELSE trim(collapseSpaces(replaceEmDash(replaceMojibake(value))))

\* The position after the longest run, from position i, of characters of a
\* class.  The classes of the two patterns are disjoint, so the greedy match
\* is the only match.
RECURSIVE afterLetters(_, _)
afterLetters(str, i) ==
    IF i <= Len(str) /\ IsLetter(str[i]) THEN afterLetters(str, i + 1) ELSE i
RECURSIVE afterDigits(_, _)
afterDigits(str, i) ==
    IF i <= Len(str) /\ IsDigit(str[i]) THEN afterDigits(str, i + 1) ELSE i
RECURSIVE afterSpaces(_, _)
afterSpaces(str, i) ==
    IF i <= Len(str) /\ IsSpace(str[i]) THEN afterSpaces(str, i + 1) ELSE i

NoMatch == [matched |-> FALSE, groups |-> <<>>]

\* RANGE_REGEX = /^([A-Z&]+)\s*(\d+)\s*[<U+2013>-]\s*(?:([A-Z&]+)\s*)?(\d+)$/i
\* groups[3] = <<>> stands for an undefined group.
matchRange(str) ==
    LET a == afterLetters(str, 1)
        b == afterSpaces(str, a)
        c == afterDigits(str, b)
        d == afterSpaces(str, c)
        e == afterSpaces(str, d + 1)
        f == afterLetters(str, e)
        g == IF f > e THEN afterSpaces(str, f) ELSE e
        h == afterDigits(str, g)
    IN IF /\ a > 1
          /\ c > b
          /\ d <= Len(str) /\ IsDash(str[d])
          /\ h > g
          /\ h = Len(str) + 1
       THEN [matched |-> TRUE,
             groups |-> <<SubSeq(str, 1, a - 1), SubSeq(str, b, c - 1),
                          SubSeq(str, e, f - 1), SubSeq(str, g, h - 1)>>]
       ELSE NoMatch

\* SKILL_CODE_REGEX = /^([A-Z&]+)\s*(\d+)$/i
matchSkillCode(str) ==
    LET a == afterLetters(str, 1)
        b == afterSpaces(str, a)
        c == afterDigits(str, b)
    IN IF a > 1 /\ c > b /\ c = Len(str) + 1
       THEN [matched |-> TRUE, groups |-> <<SubSeq(str, 1, a - 1), SubSeq(str, b, c - 1)>>]
       ELSE NoMatch

digitValue(c) ==
    CASE c = "0" -> 0 [] c = "1" -> 1 [] c = "2" -> 2 [] c = "3" -> 3 [] c = "4" -> 4
      [] c = "5" -> 5 [] c = "6" -> 6 [] c = "7" -> 7 [] c = "8" -> 8 [] c = "9" -> 9

\* parseInt(digits, 10) of a non-empty run of decimal digits.
RECURSIVE parseInt(_)
parseInt(digits) ==
    IF Len(digits) = 0 THEN 0
    ELSE 10 * parseInt(SubSeq(digits, 1, Len(digits) - 1)) + digitValue(digits[Len(digits)])

digitChar(n) == <<"0", "1", "2", "3", "4", "5", "6", "7", "8", "9">>[n + 1]

\* The decimal text of a non-negative integer in a template literal.
RECURSIVE numberToString(_)
numberToString(n) ==
    IF n < 10 THEN <<digitChar(n)>>
    ELSE numberToString(n \div 10) \o <<digitChar(n % 10)>>

\* `${prefix} ${n}`
skillId(prefix, n) == prefix \o <<" ">> \o numberToString(n)

Abs(x) == IF x < 0 THEN -x ELSE x

\* Mutant: the range always steps upward.
rangeIdsAlwaysUp(startPrefix, start, end) ==
    [index \in 1..(Abs(end - start) + 1) |-> skillId(startPrefix, start + (index - 1))]

\* Array.from({ length: |end - start| + 1 }, (_, index) => ...)
rangeIds(startPrefix, start, end) ==
    LET step == IF start <= end THEN 1 ELSE -1
    IN [index \in 1..(Abs(end - start) + 1) |->
           skillId(startPrefix, start + (index - 1) * step)]

expandSkillToken(tok) ==
    LET normalized == normalizeTokenText(tok)
        rangeMatch == matchRange(normalized)
        startPrefix == toUpperCase(rangeMatch.groups[1])
        endPrefixRaw == rangeMatch.groups[3]
        endPrefix == IF endPrefixRaw # <<>> THEN toUpperCase(endPrefixRaw) ELSE startPrefix
        codeMatch == matchSkillCode(normalized)
    IN IF normalized = <<>> THEN <<>>
       ELSE IF rangeMatch.matched /\ startPrefix = endPrefix
            THEN rangeIds(startPrefix, parseInt(rangeMatch.groups[2]),
                          parseInt(rangeMatch.groups[4]))
       ELSE IF codeMatch.matched
            THEN <<skillId(toUpperCase(codeMatch.groups[1]), parseInt(codeMatch.groups[2]))>>
       ELSE <<>>

\* ----------------------------------------------------------------- SpecTok
\* Token texts are put together from a prefix, a number, a dash, an optional
\* second prefix and a second number, each of which may be missing, with
\* optional white space between and around them.
PrefixTexts == {<<>>, <<"A", "D", "T">>, <<"s", "&", "l">>}
SecondPrefixTexts ==
    {<<>>, <<"A", "D", "T", " ">>, <<"a", "d", "t">>, <<"S", "&", "L">>, <<"C", "O", "G", " ">>}
DashTexts ==
    {<<>>, <<"-">>, <<" ", "-", " ">>, <<EnDash>>, <<" ", EmDash, "\t", " ">>, Mojibake}
PaddingTexts == {<<>>, <<" ">>}

\* A number of the token: absent (-1), or 0..MaxNum written with `zeros`
\* leading zeros.
DecimalText(n) ==
    IF n < 10 THEN <<digitChar(n)>> ELSE <<digitChar(n \div 10), digitChar(n % 10)>>
NumberText(n, zeros) ==
    IF n < 0 THEN <<>> ELSE [i \in 1..zeros |-> "0"] \o DecimalText(n)

TokenText(sh) ==
    sh.lead \o sh.prefix \o sh.gap \o NumberText(sh.first, sh.zeros) \o sh.dash
        \o sh.prefix2 \o NumberText(sh.last, 0) \o sh.lead

InitTok ==
    /\ AppIdle
    /\ nodes = <<>>
    /\ links = <<>>
    /\ trPc = "idle"
    /\ reduced = <<>>
    /\ reducedTwice = <<>>
    /\ pmPc = "idle"
    /\ pm = <<>>
    /\ depthById = <<>>
    /\ scoreById = <<>>
    /\ maxDepth = 0
    /\ tokPc = "input"
    /\ tokShape \in [lead : PaddingTexts, prefix : PrefixTexts, gap : {<<>>, <<" ">>, <<" ", " ">>},
                     first : -1..MaxNum, zeros : {0, 2}, dash : DashTexts,
                     prefix2 : SecondPrefixTexts, last : -1..MaxNum]
    /\ token = TokenText(tokShape)
    /\ expanded = <<>>
    /\ BMIdle
    /\ CPMIdle

\* expandSkillToken(token)
Expand ==
    /\ tokPc = "input"
    /\ expanded' = expandSkillToken(token)
    /\ tokPc' = "expanded"
    /\ UNCHANGED <<nodes, links, trVars, pmVars, tokShape, token, bmVars, cpmVars, appVars>>

NextTok == Expand

SpecTok == InitTok /\ [][NextTok]_vars

\* --------------------------------------------------- buildPrerequisiteModel
\* \w of the pattern /^none\b/i
IsWordChar(c) == (IsLetter(c) /\ c # "&") \/ IsDigit(c) \/ c = "_"

\* Mutant: the "none" test is missing.
startsWithNoneNever(str) == FALSE

\* /^none\b/i.test(token): "none" in any case, then the end of the text or a
\* character that is not a word character.
startsWithNone(str) ==
    /\ Len(str) >= 4
    /\ toUpperCase(SubSeq(str, 1, 4)) = <<"N", "O", "N", "E">>
    /\ (Len(str) = 4 \/ ~IsWordChar(str[5]))

\* The part \s*\(\s*or\s+(.+?)\s*\)$ of OR_REGEX matched from position i.
\* \s+ is greedy and gives a space back only when nothing else is left for
\* the group; the group is lazy and ends before the trailing white space.
orTail(str, i) ==
    LET n == Len(str)
        a == afterSpaces(str, i)
        b == afterSpaces(str, a + 1)
        c == afterSpaces(str, b + 2)
    IN IF /\ a <= n /\ str[a] = "("
          /\ b + 1 <= n /\ str[b] \in {"o", "O"} /\ str[b + 1] \in {"r", "R"}
          /\ c > b + 2
          /\ str[n] = ")"
       THEN IF c <= n - 1
            THEN [matched |-> TRUE,
                  groups |-> <<SubSeq(str, c, Len(trimEnd(SubSeq(str, 1, n - 1))))>>]
            ELSE IF c - 1 >= b + 3
            THEN [matched |-> TRUE, groups |-> <<SubSeq(str, c - 1, c - 1)>>]
            ELSE NoMatch
       ELSE NoMatch

\* Mutant: OR_REGEX matches nothing.
matchOrNever(str) == NoMatch

\* OR_REGEX = /^(.+?)\s*\(\s*or\s+(.+?)\s*\)$/i: the first group is lazy, so
\* it is the shortest non-empty prefix after which the rest matches.
matchOr(str) ==
    LET starts == {i \in 1..Len(str) : orTail(str, i + 1).matched}
        i == CHOOSE j \in starts : \A k \in starts : j <= k
    IN IF starts = {} THEN NoMatch
       ELSE [matched |-> TRUE,
             groups |-> <<SubSeq(str, 1, i), orTail(str, i + 1).groups[1]>>]

\* An empty Map, and Map.prototype.set.
EmptyMap == <<>>
mapSet(m, k, v) == [x \in DOMAIN m \cup {k} |-> IF x = k THEN v ELSE m[x]]

\* `${sourceId}=>${targetId}`
edgeTypeKey(sourceId, targetId) == sourceId \o <<"=", ">">> \o targetId

\* Mutant: the later classification always wins.
setEdgeTypeLastWins(types, sourceId, targetId, edgeType) ==
    mapSet(types, edgeTypeKey(sourceId, targetId), edgeType)

\* setEdgeType: required edges win over OR if both are encountered.
setEdgeType(types, sourceId, targetId, edgeType) ==
    LET key == edgeTypeKey(sourceId, targetId)
        currentIsRequired == key \in DOMAIN types /\ types[key] = "required"
    IN IF edgeType = "required" \/ ~currentIsRequired
       THEN mapSet(types, key, edgeType)
       ELSE types

\* Mutant: only the first source of the list gets its edge type.
setEdgeTypesFirstOnly(types, sources, i, targetId, edgeType) ==
    IF i > Len(sources) \/ i > 1 THEN types
    ELSE mapSet(types, edgeTypeKey(sources[i], targetId), edgeType)

\* for (const sourceId of sources) setEdgeType(..., sourceId, targetId, edgeType)
RECURSIVE setEdgeTypes(_, _, _, _, _)
setEdgeTypes(types, sources, i, targetId, edgeType) ==
    IF i > Len(sources) THEN types
    ELSE setEdgeTypes(setEdgeType(types, sources[i], targetId, edgeType),
                      sources, i + 1, targetId, edgeType)

\* Mutant: the alternatives are not de-duplicated.
RECURSIVE orFilterNoDedup(_, _, _)
orFilterNoDedup(validNodes, array, index) ==
    IF index > Len(array) THEN <<>>
    ELSE (IF array[index] \in validNodes THEN <<array[index]>> ELSE <<>>)
         \o orFilterNoDedup(validNodes, array, index + 1)

\* Mutant: the alternatives are not restricted to the valid ids.
RECURSIVE orFilterNoValid(_, _, _)
orFilterNoValid(validNodes, array, index) ==
    IF index > Len(array) THEN <<>>
    ELSE (IF \A j \in 1..(index - 1) : array[j] # array[index]
          THEN <<array[index]>> ELSE <<>>)
         \o orFilterNoValid(validNodes, array, index + 1)

\* .filter((skillId, index, array) =>
\*     array.indexOf(skillId) === index && validNodes.has(skillId))
RECURSIVE orFilter(_, _, _)
orFilter(validNodes, array, index) ==
    IF index > Len(array) THEN <<>>
    ELSE (IF /\ \A j \in 1..(index - 1) : array[j] # array[index]
             /\ array[index] \in validNodes
          THEN <<array[index]>> ELSE <<>>)
         \o orFilter(validNodes, array, index + 1)

\* Mutant: a plain entry pushes its ids as one group.
plainGroupsAsOne(expandedIds) == IF expandedIds = <<>> THEN <<>> ELSE <<expandedIds>>

\* for (const sourceId of expanded) groups.push([sourceId])
plainGroups(expandedIds) == [i \in 1..Len(expandedIds) |-> <<expandedIds[i]>>]

\* The part of the loop body (lines 298-316) that depends on the raw entry
\* alone: whether it is passed over, whether it is an OR entry, and the ids
\* it expands to (for an OR entry, those of both sides, concatenated).
bmParse(rawToken) ==
    LET tok == normalizeTokenText(rawToken)
        orMatch == matchOr(tok)
    IN [skip |-> tok = <<>> \/ startsWithNone(tok),
        isOr |-> orMatch.matched,
        ids |-> IF orMatch.matched
                THEN expandSkillToken(orMatch.groups[1]) \o expandSkillToken(orMatch.groups[2])
                ELSE expandSkillToken(tok)]

\* The rest of the loop body (lines 299-320) on the state st = [groups, types]:
\* the groups of the target so far and edgeTypeByKey.
bmApply(validNodes, targetId, st, parse) ==
    LET alternatives == orFilter(validNodes, parse.ids, 1)
        expandedIds == SelectSeq(parse.ids, LAMBDA skill : skill \in validNodes)
    IN IF parse.skip THEN st
       ELSE IF parse.isOr
            THEN IF Len(alternatives) > 0
                 THEN [groups |-> Append(st.groups, alternatives),
                       types |-> setEdgeTypes(st.types, alternatives, 1, targetId,
                                     IF Len(alternatives) > 1 THEN "or" ELSE "required")]
                 ELSE st
       ELSE [groups |-> st.groups \o plainGroups(expandedIds),
             types |-> setEdgeTypes(st.types, expandedIds, 1, targetId, "required")]

\* The body of the loop over rawPrerequisites (lines 298-320).
bmEntry(validNodes, targetId, st, rawToken) ==
    bmApply(validNodes, targetId, st, bmParse(rawToken))

\* for (const rawToken of rawPrerequisites ?? []) { ... }
RECURSIVE bmEntries(_, _, _, _, _)
bmEntries(validNodes, targetId, st, rawPrerequisites, i) ==
    IF rawPrerequisites = NullValue \/ i > Len(rawPrerequisites) THEN st
    ELSE bmEntries(validNodes, targetId,
                   bmEntry(validNodes, targetId, st, rawPrerequisites[i]),
                   rawPrerequisites, i + 1)

\* buildPrerequisiteModel on the entries of appendixAData from position i on;
\* model = [groupsByTarget, edgeTypeByKey, groupCountByTarget].
RECURSIVE bmTargets(_, _, _, _)
bmTargets(entries, validNodes, i, model) ==
    IF i > Len(entries) THEN model
    ELSE LET targetId == entries[i][1]
             st == bmEntries(validNodes, targetId,
                             [groups |-> <<>>, types |-> model.edgeTypeByKey],
                             entries[i][2], 1)
         IN bmTargets(entries, validNodes, i + 1,
                IF targetId \notin validNodes THEN model
                ELSE [groupsByTarget |-> mapSet(model.groupsByTarget, targetId, st.groups),
                      edgeTypeByKey |-> st.types,
                      groupCountByTarget |->
                          mapSet(model.groupCountByTarget, targetId, Len(st.groups))])

\* Object.entries(appendixAData ?? {}) is the list of [key, value] pairs.
buildPrerequisiteModel(entries, validNodes) ==
    bmTargets(IF entries = NullValue THEN <<>> ELSE entries, validNodes, 1,
              [groupsByTarget |-> EmptyMap, edgeTypeByKey |-> EmptyMap,
               groupCountByTarget |-> EmptyMap])

\* ------------------------------------------------------------------ SpecBM
\* Skill ids and raw appendix entries of the model.  An entry is put together
\* from a shape, so that what it stands for is known without parsing it.
SkillNumbers == {1, 2, 3}
AdtId(n) == <<"A", "D", "T", " ", digitChar(n)>>
NoneId == <<"N", "O", "N", "E", " ", "1">>
OtherId == <<"C", "O", "G", " ", "7">>
AdtIds == {AdtId(n) : n \in SkillNumbers}
IdUniverse == AdtIds \cup {NoneId}
\* The valid-id sets: every set of ADT ids, and all ids of the model.
ValidIdSets == SUBSET AdtIds \cup {IdUniverse}
TargetIds == {AdtId(2), AdtId(3)}

Atom(kind, a, b) == [kind |-> kind, a |-> a, b |-> b]
NoAtom == Atom("-", 0, 0)
CodeAtoms == {Atom("code", n, n) : n \in SkillNumbers}
RangeAtoms == {Atom("range", n[1], n[2]) : n \in {m \in SkillNumbers \X SkillNumbers : m[1] # m[2]}}
OtherAtoms == {Atom("mixed", 1, 2), Atom("junk", 0, 0)}
OrAtoms == CodeAtoms \cup {Atom("range", 2, 1), Atom("junk", 0, 0)}

AtomText(at) ==
    CASE at.kind = "code" -> AdtId(at.a)
      [] at.kind = "range" -> AdtId(at.a) \o <<"-", digitChar(at.b)>>
      [] at.kind = "mixed" -> AdtId(at.a) \o <<"-">> \o <<"C", "O", "G", " ">> \o <<digitChar(at.b)>>
      [] OTHER -> <<"T", "B", "D">>

BlankTexts == {<<>>, <<" ">>, NullValue}
\* "None", "none (or ADT 1)", "NONE 1": the word none, then something else.
NoneTexts ==
    {<<"N", "o", "n", "e">>,
     <<"n", "o", "n", "e", " ", "(", "o", "r", " ", "A", "D", "T", " ", "1", ")">>,
     <<"N", "O", "N", "E", " ", "1">>}
\* "none1": the skill code NONE 1 written without a space.
NoneCodeText == <<"n", "o", "n", "e", "1">>

Entry(kind, left, right, text) == [kind |-> kind, left |-> left, right |-> right, text |-> text]
EntryShapes ==
    {Entry("blank", NoAtom, NoAtom, t) : t \in BlankTexts}
    \cup {Entry("none", NoAtom, NoAtom, t) : t \in NoneTexts}
    \cup {Entry("nonecode", NoAtom, NoAtom, NoneCodeText)}
    \cup {Entry("plain", at, NoAtom, AtomText(at)) : at \in CodeAtoms \cup RangeAtoms \cup OtherAtoms}
    \cup {Entry("or", p[1], p[2], AtomText(p[1]) \o <<" ", "(", "o", "r", " ">> \o AtomText(p[2]) \o <<")">>) :
            p \in OrAtoms \X OrAtoms}
NoEntry == Entry("-", NoAtom, NoAtom, <<>>)

\* Every raw entry of the model with what the loop body makes of its text.
ParsedEntries == {[entry |-> e, parse |-> bmParse(e.text)] : e \in EntryShapes}

\* The raw edges of the edge data: lists of at most MaxEdges edges between a
\* skill id and an id that no node list holds.
EdgeIds == {AdtId(1), OtherId}
EdgeLists ==
    UNION {[1..k -> [source : EdgeIds, target : EdgeIds]] : k \in 0..MaxEdges}

InitBM ==
    /\ AppIdle
    /\ nodes = <<>>
    /\ links = <<>>
    /\ trPc = "idle"
    /\ reduced = <<>>
    /\ reducedTwice = <<>>
    /\ pmPc = "idle"
    /\ pm = <<>>
    /\ depthById = <<>>
    /\ scoreById = <<>>
    /\ maxDepth = 0
    /\ TokIdle
    /\ CPMIdle
    /\ validNodeIds \in ValidIdSets
    /\ appendixAData = <<>>
    /\ bmPc = "targets"
    /\ bm = [targetId |-> <<>>, groups |-> <<>>, entry |-> NoEntry, seen |-> {}, reads |-> 0]
    /\ groupsByTarget = EmptyMap
    /\ edgeTypeByKey = EmptyMap
    /\ groupCountByTarget = EmptyMap
    /\ masterLinks = <<>>

bmOther == <<nodes, trVars, pmVars, tokVars, appVars, cpmVars, validNodeIds, appendixAData>>

\* lines 293-295: the next key of appendixAData; a key outside the valid ids
\* is passed over.  The keys of an object are distinct.
BMNextTarget ==
    /\ bmPc = "targets"
    /\ \E targetId \in TargetIds \ bm.seen :
          /\ bm' = [bm EXCEPT !.targetId = targetId, !.groups = <<>>, !.entry = NoEntry,
                              !.seen = @ \cup {targetId}]
          /\ bmPc' = IF targetId \in validNodeIds THEN "entries" ELSE "targets"
    /\ UNCHANGED <<bmOther, links, groupsByTarget, edgeTypeByKey, groupCountByTarget,
                   masterLinks>>

\* lines 297-321: the next raw entry of the target is read and processed.
BMEntry ==
    /\ bmPc = "entries"
    /\ bm.reads < MaxEntries
    /\ \E pe \in ParsedEntries :
          LET st == bmApply(validNodeIds, bm.targetId,
                            [groups |-> bm.groups, types |-> edgeTypeByKey], pe.parse)
          IN /\ bm' = [bm EXCEPT !.groups = st.groups, !.entry = pe.entry, !.reads = @ + 1]
             /\ edgeTypeByKey' = st.types
    /\ UNCHANGED <<bmOther, links, bmPc, groupsByTarget, groupCountByTarget, masterLinks>>

\* lines 323-324: the entries of the target are exhausted.
BMEndTarget ==
    /\ bmPc = "entries"
    /\ groupsByTarget' = mapSet(groupsByTarget, bm.targetId, bm.groups)
    /\ groupCountByTarget' = mapSet(groupCountByTarget, bm.targetId, Len(bm.groups))
    /\ bm' = [bm EXCEPT !.entry = NoEntry]
    /\ bmPc' = "targets"
    /\ UNCHANGED <<bmOther, links, edgeTypeByKey, masterLinks>>

\* lines 327-331: the keys are exhausted.
BMReturn ==
    /\ bmPc = "targets"
    /\ bmPc' = "done"
    /\ UNCHANGED <<bmOther, links, bm, groupsByTarget, edgeTypeByKey, groupCountByTarget,
                   masterLinks>>

\* Mutant: masterLinks keeps every edge.
masterLinksUnfiltered(nodeIds, edgeData) == edgeData

\* initializeApp: masterLinks = edgeData.filter(both endpoints in nodeMap).map(...)
masterLinksOf(nodeIds, edgeData) ==
    SelectSeq(edgeData, LAMBDA d : d.source \in nodeIds /\ d.target \in nodeIds)

\* initializeApp after buildPrerequisiteModel, with nodeMap's keys as the
\* valid ids.
BMMasterLinks ==
    /\ bmPc = "done"
    /\ \E edgeData \in EdgeLists :
          /\ links' = edgeData
          /\ masterLinks' = masterLinksOf(validNodeIds, edgeData)
    /\ bmPc' = "linked"
    /\ UNCHANGED <<bmOther, bm, groupsByTarget, edgeTypeByKey, groupCountByTarget>>

NextBM == BMNextTarget \/ BMEntry \/ BMEndTarget \/ BMReturn \/ BMMasterLinks

SpecBM == InitBM /\ [][NextBM]_vars

\* ------------------------------------------------- computeProgressMetrics
NOT_STARTED == "not-started"
IN_PROGRESS == "in-progress"
MASTERED == "mastered"

\* What Map.get and a property read give for a key that is not there.
Undefined == "undefined"
mapGet(m, k) == IF k \in DOMAIN m THEN m[k] ELSE Undefined

\* Mutant: an unknown stored value counts as in progress.
normalizeProgressStatusLenient(value) ==
    IF value = MASTERED THEN MASTERED
    ELSE IF value = IN_PROGRESS \/ value = "done" THEN IN_PROGRESS
    ELSE NOT_STARTED

normalizeProgressStatus(value) ==
    IF value = MASTERED THEN MASTERED
    ELSE IF value = IN_PROGRESS THEN IN_PROGRESS
    ELSE NOT_STARTED

\* Mutant: a member in progress satisfies the group too.
groupSatisfiedByProgress(rawStateMap, group) ==
    \E i \in 1..Len(group) :
        normalizeProgressStatus(mapGet(rawStateMap, group[i])) # NOT_STARTED

\* Mutant: a group is satisfied by a member that is not mastered.
groupSatisfiedByUnmastered(rawStateMap, group) ==
    \E i \in 1..Len(group) :
        normalizeProgressStatus(mapGet(rawStateMap, group[i])) # MASTERED

\* group.some(alternativeId => normalised status of alternativeId is mastered)
groupSatisfied(rawStateMap, group) ==
    \E i \in 1..Len(group) :
        normalizeProgressStatus(mapGet(rawStateMap, group[i])) = MASTERED

\* The inner loop: the number of groups of the list that are satisfied.
satisfiedGroupsOf(rawStateMap, prerequisiteGroups) ==
    Cardinality({i \in 1..Len(prerequisiteGroups) :
                    groupSatisfied(rawStateMap, prerequisiteGroups[i])})

\* Mutant: a node without groups has readiness 0.
readinessOfZeroWhenNone(satisfiedGroups, totalGroups) ==
    IF totalGroups = 0 THEN <<0, 1>> ELSE <<satisfiedGroups, totalGroups>>

\* readiness, the rational satisfiedGroups / totalGroups as <<num, den>>.
readinessOf(satisfiedGroups, totalGroups) ==
    IF totalGroups = 0 THEN <<1, 1>> ELSE <<satisfiedGroups, totalGroups>>

\* Mutant: the status test is missing.
isReadyNowAnyStatus(status, readiness) == readiness[1] >= readiness[2]

\* status !== MASTERED && readiness >= 1
isReadyNow(status, readiness) == status # MASTERED /\ readiness[1] >= readiness[2]

\* The local state of a call: the three arguments as the call sees them
\* (rawStateMap is the caller's Map itself) and the results under construction.
cpmStart(ns, groups, progress) ==
    [nodes |-> ns, groupsByTarget |-> groups, rawStateMap |-> progress,
     stateById |-> EmptyMap, readinessById |-> EmptyMap,
     satisfiedById |-> EmptyMap, totalById |-> EmptyMap,
     readyNowIds |-> <<>>,
     counts |-> [c \in {NOT_STARTED, IN_PROGRESS, MASTERED, "readyNow"} |-> 0]]

\* Mutant: only mastered nodes are tallied.
cpmStatusUncounted(st, nodeId, status) ==
    [st EXCEPT !.stateById = mapSet(@, nodeId, status),
               !.counts[status] = IF status = MASTERED THEN @ + 1 ELSE @]

\* Mutant: the normalised status is also written back to rawStateMap.
cpmStatusStored(st, nodeId, status) ==
    [st EXCEPT !.stateById = mapSet(@, nodeId, status),
               !.rawStateMap = mapSet(@, nodeId, status),
               !.counts[status] = @ + 1]

\* stateById.set(nodeId, status); counts[status] += 1
cpmStatus(st, nodeId, status) ==
    [st EXCEPT !.stateById = mapSet(@, nodeId, status),
               !.counts[status] = @ + 1]

\* The body of the loop over the nodes, for one node.
cpmNode(st0, nodeId) ==
    LET status == normalizeProgressStatus(mapGet(st0.rawStateMap, nodeId))
        st == cpmStatus(st0, nodeId, status)
        prerequisiteGroups == IF nodeId \in DOMAIN st.groupsByTarget
                              THEN st.groupsByTarget[nodeId] ELSE <<>>
        totalGroups == Len(prerequisiteGroups)
        satisfiedGroups == satisfiedGroupsOf(st.rawStateMap, prerequisiteGroups)
        readiness == readinessOf(satisfiedGroups, totalGroups)
    IN  [st EXCEPT !.readinessById = mapSet(@, nodeId, readiness),
                   !.satisfiedById = mapSet(@, nodeId, satisfiedGroups),
                   !.totalById = mapSet(@, nodeId, totalGroups),
                   !.readyNowIds = IF isReadyNow(status, readiness)
                                   THEN Append(@, nodeId) ELSE @]

RECURSIVE cpmNodes(_, _)
cpmNodes(st, i) ==
    IF i > Len(st.nodes) THEN st ELSE cpmNodes(cpmNode(st, st.nodes[i]), i + 1)

\* The state of a call at its return statement.
cpmCall(ns, groups, progress) ==
    LET st == cpmNodes(cpmStart(ns, groups, progress), 1)
    IN  [st EXCEPT !.counts["readyNow"] = Len(st.readyNowIds)]

\* The returned object of that call.
cpmReturned(st) ==
    [stateById |-> st.stateById, readinessById |-> st.readinessById,
     satisfiedById |-> st.satisfiedById, totalById |-> st.totalById,
     readyNowIds |-> st.readyNowIds, counts |-> st.counts]

computeProgressMetrics(ns, groups, progress) ==
    cpmReturned(cpmCall(ns, groups, progress))

\* setStatusForSkill of the visualizer on the progress state.
setStatusForSkill(progress, id, status) ==
    LET normalized == normalizeProgressStatus(status)
    IN  IF normalized = NOT_STARTED
        THEN [x \in DOMAIN progress \ {id} |-> progress[x]]
        ELSE mapSet(progress, id, normalized)

\* ----------------------------------------------------------------- SpecCPM
\* Skills are 1..k for a node list of k nodes.  A prerequisite group names one
\* or two skills of the list, or nobody; a model holds MaxGroups groups at
\* most, under the targets that have any.
SkillLists == {[i \in 1..k |-> i] : k \in 0..MaxSkills}
GroupChoices(k) ==
    {<<>>} \cup {<<a>> : a \in 1..k}
           \cup {<<p[1], p[2]>> : p \in {q \in (1..k) \X (1..k) : q[1] < q[2]}}
\* The groups of a model, listed target by target, as (target, group) pairs.
GroupPairLists(k) ==
    UNION {{f \in [1..n -> (1..k) \X GroupChoices(k)] :
               \A i \in 1..(n - 1) : f[i][1] <= f[i + 1][1]} : n \in 0..MaxGroups}
groupsOfTarget(pairs, t) ==
    LET own == SelectSeq(pairs, LAMBDA p : p[1] = t)
    IN  [i \in 1..Len(own) |-> own[i][2]]
GroupModels(k) ==
    {[t \in {pairs[i][1] : i \in 1..Len(pairs)} |-> groupsOfTarget(pairs, t)] :
        pairs \in GroupPairLists(k)}

\* Stored statuses: setStatusForSkill keeps no entry for a skill that is not
\* started, so an entry is "in-progress", "mastered", or a value that came
\* with a saved state and is none of the three statuses.
Missing == "missing"
RawStatuses == {IN_PROGRESS, MASTERED, "done"}
ProgressStates(k) ==
    {[s \in {u \in 1..k : f[u] # Missing} |-> f[s]] :
        f \in [1..k -> RawStatuses \cup {Missing}]}

InitCPM ==
    /\ AppIdle
    /\ nodes \in SkillLists
    /\ links = <<>>
    /\ trPc = "idle"
    /\ reduced = <<>>
    /\ reducedTwice = <<>>
    /\ pmPc = "idle"
    /\ pm = <<>>
    /\ depthById = <<>>
    /\ scoreById = <<>>
    /\ maxDepth = 0
    /\ TokIdle
    /\ validNodeIds = {} /\ appendixAData = <<>> /\ bmPc = "idle" /\ bm = <<>>
    /\ edgeTypeByKey = <<>> /\ groupCountByTarget = <<>> /\ masterLinks = <<>>
    /\ groupsByTarget \in GroupModels(Len(nodes))
    /\ progressStateById \in ProgressStates(Len(nodes))
    /\ cpmPc = "input"
    /\ metrics = <<>>
    /\ metricsBefore = <<>>

cpmOther == <<links, trVars, pmVars, tokVars, appVars, validNodeIds, appendixAData, bmPc, bm,
              edgeTypeByKey, groupCountByTarget, masterLinks>>

\* The caller after a call that ended in state st: it holds the returned
\* metrics, and its node list, model and progress Map are the objects the call
\* worked on.
cpmCalled(st) ==
    /\ metrics' = cpmReturned(st)
    /\ nodes' = st.nodes
    /\ groupsByTarget' = st.groupsByTarget
    /\ progressStateById' = st.rawStateMap

\* updateActiveGraph: the first computation.
CPMCompute ==
    /\ cpmPc = "input"
    /\ cpmCalled(cpmCall(nodes, groupsByTarget, progressStateById))
    /\ cpmPc' = "computed"
    /\ UNCHANGED <<cpmOther, metricsBefore>>

\* updateActiveGraph once more, nothing having changed in between.
CPMComputeAgain ==
    /\ cpmPc = "computed"
    /\ metricsBefore' = metrics
    /\ cpmCalled(cpmCall(nodes, groupsByTarget, progressStateById))
    /\ cpmPc' = "again"
    /\ UNCHANGED cpmOther

\* The checklist handler with the mastered box ticked for a skill that is not
\* mastered yet: setStatusForSkill, then updateActiveGraph.
CPMMarkMastered ==
    /\ cpmPc = "computed"
    /\ \E id \in Range(nodes) :
          /\ metrics.stateById[id] # MASTERED
          /\ metricsBefore' = metrics
          /\ cpmCalled(cpmCall(nodes, groupsByTarget,
                               setStatusForSkill(progressStateById, id, MASTERED)))
    /\ cpmPc' = "changed"
    /\ UNCHANGED cpmOther

NextCPM == CPMCompute \/ CPMComputeAgain \/ CPMMarkMastered

SpecCPM == InitCPM /\ [][NextCPM]_vars

\* ----------------------------------------------------------------- SpecE2E
\* initializeApp then updateActiveGraph on three skills A, B, C, in this
\* order in the node list, with appendix A  { C: [ A, "B (or A)" ] }.  The
\* three ids are the one-letter strings of the written scenario, or skill
\* codes.  A stored progress state holds "mastered" for any of the three.
LetterIds == <<<<"A">>, <<"B">>, <<"C">>>>
ScenarioIds == AdtIds \cup {OtherId, NoneId}
ScenarioNodeLists ==
    {LetterIds} \cup
    {t \in ScenarioIds \X ScenarioIds \X ScenarioIds :
        t[1] # t[2] /\ t[1] # t[3] /\ t[2] # t[3]}
orEntryText(x, y) == x \o <<" ", "(", "o", "r", " ">> \o y \o <<")">>
scenarioAppendix(ns) == << <<ns[3], <<ns[1], orEntryText(ns[2], ns[1])>>>> >>
ScenarioProgressStates(ns) ==
    {[s \in S |-> MASTERED] : S \in SUBSET Range(ns)}

InitE2E ==
    /\ AppIdle
    /\ nodes \in ScenarioNodeLists
    /\ links = <<>>
    /\ trPc = "idle"
    /\ reduced = <<>>
    /\ reducedTwice = <<>>
    /\ pmPc = "idle"
    /\ pm = <<>>
    /\ depthById = <<>>
    /\ scoreById = <<>>
    /\ maxDepth = 0
    /\ TokIdle
    /\ validNodeIds = Range(nodes)
    /\ appendixAData = scenarioAppendix(nodes)
    /\ bmPc = "given"
    /\ bm = <<>>
    /\ groupsByTarget = EmptyMap
    /\ edgeTypeByKey = EmptyMap
    /\ groupCountByTarget = EmptyMap
    /\ masterLinks = <<>>
    /\ progressStateById \in ScenarioProgressStates(nodes)
    /\ cpmPc = "input"
    /\ metrics = <<>>
    /\ metricsBefore = <<>>

e2eBuilt(model) ==
    /\ groupsByTarget' = model.groupsByTarget
    /\ edgeTypeByKey' = model.edgeTypeByKey
    /\ groupCountByTarget' = model.groupCountByTarget

\* initializeApp: buildPrerequisiteModel(appendixAData, the ids of nodeMap).
E2EBuild ==
    /\ bmPc = "given"
    /\ e2eBuilt(buildPrerequisiteModel(appendixAData, validNodeIds))
    /\ bmPc' = "done"
    /\ UNCHANGED <<nodes, links, trVars, pmVars, tokVars, appVars, validNodeIds, appendixAData,
                   bm, masterLinks, cpmVars>>

\* updateActiveGraph: computeProgressMetrics on the built model.
E2EMetrics ==
    /\ bmPc = "done"
    /\ cpmPc = "input"
    /\ cpmCalled(cpmCall(nodes, groupsByTarget, progressStateById))
    /\ cpmPc' = "computed"
    /\ UNCHANGED <<cpmOther, metricsBefore>>

NextE2E == E2EBuild \/ E2EMetrics

SpecE2E == InitE2E /\ [][NextE2E]_vars

\* ------------------------------------------------------ calculateNodeLevels
\* An optional field of a node object: absent, or holding a value.
Absent == <<>>
Holding(v) == <<v>>
\* x ?? d
orElse(x, d) == IF x = Absent THEN d ELSE x[1]

\* Math.max(...[]) is -Infinity.
NegInfinity == "-Infinity"

\* The scratch fields of one node object.  outLinks holds node objects, given
\* by their places in the node list.
Scratch(inDegree, outLinks, level) ==
    [inDegree |-> inDegree, outLinks |-> outLinks, level |-> level]
FreshObjs(ns) == [i \in 1..Len(ns) |-> Scratch(Absent, Absent, Absent)]

\* nodeMap = new Map(nodes.map(node => [node.id, node])): the last node object
\* of each id.
nlNodeMap(ns) ==
    [id \in Range(ns) |->
        CHOOSE i \in 1..Len(ns) : ns[i] = id /\ \A j \in (i + 1)..Len(ns) : ns[j] # id]

nlInitializeKeepingLevel(objs) ==
    [i \in DOMAIN objs |-> Scratch(Holding(0), Holding(<<>>), objs[i].level)]

\* nodes.forEach(node => { node.inDegree = 0; node.outLinks = []; node.level = -1; })
nlInitialize(objs) ==
    [i \in DOMAIN objs |-> Scratch(Holding(0), Holding(<<>>), Holding(-1))]

\* links.forEach: in-degrees and outgoing adjacency, from link k on.
RECURSIVE nlCount(_, _, _, _)
nlCount(objs, ns, ls, k) ==
    IF k > Len(ls) THEN objs
    ELSE LET s == getNodeId(ls[k].source)
             t == getNodeId(ls[k].target)
         IN IF s \in Range(ns) /\ t \in Range(ns)
            THEN LET sourceNode == nlNodeMap(ns)[s]
                     targetNode == nlNodeMap(ns)[t]
                     counted == [objs EXCEPT ![targetNode].inDegree =
                                                 Holding(orElse(@, 0) + 1)]
                 IN nlCount([counted EXCEPT ![sourceNode].outLinks =
                                                Holding(Append(orElse(@, <<>>), targetNode))],
                            ns, ls, k + 1)
            ELSE nlCount(objs, ns, ls, k + 1)

\* nodes.filter(node => node.inDegree === 0)
RECURSIVE nlRoots(_, _)
nlRoots(objs, i) ==
    IF i > Len(objs) THEN <<>>
    ELSE (IF objs[i].inDegree = Holding(0) THEN <<i>> ELSE <<>>) \o nlRoots(objs, i + 1)

\* queue.forEach(node => { node.level = 0; })
nlLevelRoots(objs, queue) ==
    [i \in DOMAIN objs |->
        IF i \in Range(queue) THEN [objs[i] EXCEPT !.level = Holding(0)] ELSE objs[i]]

\* (u.outLinks ?? []).forEach(v => ...) from the j-th out-link of u on; st holds
\* the node objects and the queue.
RECURSIVE nlVisit(_, _, _)
nlVisit(st, u, j) ==
    LET out == orElse(st.objs[u].outLinks, <<>>)
    IN IF j > Len(out) THEN st
       ELSE LET v == out[j]
                inDegree == orElse(st.objs[v].inDegree, 0) - 1
                level == Max2(orElse(st.objs[v].level, -1),
                              orElse(st.objs[u].level, 0) + 1)
                objs == [st.objs EXCEPT ![v].inDegree = Holding(inDegree),
                                        ![v].level = Holding(level)]
            IN nlVisit([objs |-> objs,
                        queue |-> IF inDegree = 0 THEN Append(st.queue, v) ELSE st.queue],
                       u, j + 1)

\* while (head < queue.length) { const u = queue[head++]; ... }; head counts
\* from 1 here.
RECURSIVE nlWhile(_, _)
nlWhile(st, head) ==
    IF head > Len(st.queue) THEN st
    ELSE nlWhile(nlVisit(st, st.queue[head], 1), head + 1)

\* nodes.forEach(node => { if (node.level === -1) node.level = 0; })
nlDefault(objs) ==
    [i \in DOMAIN objs |->
        IF objs[i].level = Holding(-1) THEN [objs[i] EXCEPT !.level = Holding(0)]
        ELSE objs[i]]

\* Math.max(...nodes.map(n => n.level ?? 0))
nlMaxLevel(objs) ==
    IF Len(objs) = 0 THEN NegInfinity
    ELSE LET L == {orElse(objs[i].level, 0) : i \in 1..Len(objs)}
         IN CHOOSE m \in L : \A x \in L : x <= m

\* calculateNodeLevels(nodes, links) on node objects whose scratch fields are
\* objs: the node objects afterwards and the return value.
calculateNodeLevels(objs, ns, ls) ==
    LET counted == nlCount(nlInitialize(objs), ns, ls, 1)
        queue == nlRoots(counted, 1)
        done == nlWhile([objs |-> nlLevelRoots(counted, queue), queue |-> queue], 1)
        final == nlDefault(done.objs)
    IN [objs |-> final, ret |-> nlMaxLevel(final)]

\* The levels the node objects hold.
levelsOf(objs) == [i \in DOMAIN objs |-> objs[i].level]

\* ------------------------------------------------------------------ SpecNL
LevelNodeLists == {[i \in 1..k |-> i] : k \in 0..MaxLevelNodes}
LevelLinkLists(ids) ==
    UNION {{[i \in 1..k |-> Link(f[i][1], f[i][2], i)] : f \in [1..k -> ids \X ids]} :
              k \in 0..MaxLevelLinks}

\* Link sets of an earlier run on the same node objects: a chain through the
\* node list, the chain reversed, and a self-loop on every node.
ChainLinks(ns) == [i \in 1..(Len(ns) - 1) |-> Link(ns[i], ns[i + 1], i)]
ReversedChainLinks(ns) == [i \in 1..(Len(ns) - 1) |-> Link(ns[i + 1], ns[i], i)]
LoopLinks(ns) == [i \in 1..Len(ns) |-> Link(ns[i], ns[i], i)]

\* What the scratch fields may hold when the function is called: nothing (fresh
\* node objects), what an earlier run on another link set left, or values that
\* no run leaves.
StaleObjs(ns) ==
    {FreshObjs(ns)}
    \cup {calculateNodeLevels(FreshObjs(ns), ns, ls).objs :
             ls \in {ChainLinks(ns), ReversedChainLinks(ns), LoopLinks(ns)}}
    \cup {[i \in 1..Len(ns) |-> Scratch(Holding(0 - i), Absent, Holding(i + 1))]}

InitNL ==
    /\ nodes \in LevelNodeLists
    /\ links \in LevelLinkLists(LinkIds(nodes))
    /\ nlPc = "input"
    /\ nlObjs \in StaleObjs(nodes)
    /\ nlRet = 0
    /\ nlBefore = <<>>
    /\ trPc = "idle" /\ reduced = <<>> /\ reducedTwice = <<>>
    /\ pmPc = "idle" /\ pm = <<>> /\ depthById = <<>> /\ scoreById = <<>> /\ maxDepth = 0
    /\ TokIdle
    /\ BMIdle
    /\ CPMIdle
    /\ StIdle

nlOther == <<nodes, links, trVars, pmVars, tokVars, bmVars, cpmVars, stVars>>

\* const maxLevel = calculateNodeLevels(nodes, links)
NLLevel ==
    /\ nlPc = "input"
    /\ \E r \in {calculateNodeLevels(nlObjs, nodes, links)} :
          nlObjs' = r.objs /\ nlRet' = r.ret
    /\ nlBefore' = [levels |-> levelsOf(nlObjs)]
    /\ nlPc' = "levelled"
    /\ UNCHANGED nlOther

\* the same call once more, on the node objects as the call before left them
NLLevelAgain ==
    /\ nlPc = "levelled"
    /\ \E r \in {calculateNodeLevels(nlObjs, nodes, links)} :
          nlObjs' = r.objs /\ nlRet' = r.ret
    /\ nlBefore' = [levels |-> levelsOf(nlObjs), ret |-> nlRet]
    /\ nlPc' = "again"
    /\ UNCHANGED nlOther

NextNL == NLLevel \/ NLLevelAgain

SpecNL == InitNL /\ [][NextNL]_vars

\* ------------------------------------------------- storage and student slots
\* A localStorage key is the list of the words it is written with
\* ('skillGraphPositions' is skill, Graph, Positions), so that one key starts
\* with another text exactly when its words start with the words of that text.
POSITIONS_KEY == <<"skill", "Graph", "Positions">>
SETTINGS_KEY == <<"skill", "Graph", "View", "Settings">>
PROGRESS_STATE_KEY == <<"skill", "Graph", "Progress", "State">>
DROPDOWN_STATE_KEY == <<"sidebar", "Dropdown", "State">>
SORT_STATE_KEY == <<"skill", "Sort", "State">>
CHECKLIST_STATE_KEY == <<"skill", "Checklist", "State">>
STUDENT_NAMES_KEY == <<"student", "Slot", "Names">>
ACTIVE_STUDENT_KEY == <<"active", "Student", "Slot">>

\* `student:${index}:${key}`
studentKey(index, key) == <<"student", ":", digitChar(index), ":">> \o key

\* key.startsWith(prefix)
startsWith(key, prefix) ==
    /\ Len(prefix) <= Len(key)
    /\ \A i \in 1..Len(prefix) : key[i] = prefix[i]

\* A stored item or a loaded value: JSON null, or a JSON value.
JsonNull == [type |-> "null"]
JsonValue(v) == [type |-> "value", value |-> v]
\* x ?? d
orDefault(x, d) == IF x.type = "null" THEN d ELSE x.value

\* saveItem: localStorage.setItem(key, JSON.stringify(value))
saveItem(storage, key, value) == mapSet(storage, key, value)

\* loadItem: null for a key that is not stored, the parsed item otherwise.
loadItem(storage, key) == IF key \in DOMAIN storage THEN storage[key] ELSE JsonNull

\* The settings that select the displayed graph.
DEFAULT_SETTINGS == [transitiveReduction |-> FALSE, offOffDisplay |-> "dim"]

\* value === 'remove' ? 'remove' : 'dim'
normalizeOffOffDisplay(value) == IF value = "remove" THEN "remove" ELSE "dim"

\* Values whose content plays no part here.
SavedPositions == "positions"
StudentNames == "names"

\* clearAll: removes the keys that start with 'skillGraph', 'sidebar' or
\* 'skillChecklist'.
clearAll(storage) ==
    [key \in {k \in DOMAIN storage :
                 ~ (\/ startsWith(k, <<"skill", "Graph">>)
                    \/ startsWith(k, <<"sidebar">>)
                    \/ startsWith(k, <<"skill", "Checklist">>))} |->
        storage[key]]

snapshotKeys ==
    <<CHECKLIST_STATE_KEY, DROPDOWN_STATE_KEY, SORT_STATE_KEY, SETTINGS_KEY, PROGRESS_STATE_KEY>>

\* snapshotKeys.forEach(key => saveItem(`student:${index}:${key}`, loadItem(key)))
RECURSIVE saveSnapshot(_, _, _)
saveSnapshot(storage, index, k) ==
    IF k > Len(snapshotKeys) THEN storage
    ELSE saveSnapshot(saveItem(storage, studentKey(index, snapshotKeys[k]),
                               loadItem(storage, snapshotKeys[k])),
                      index, k + 1)

saveStudentStatePositionsOnly(storage, index) ==
    saveItem(storage, studentKey(index, POSITIONS_KEY), JsonValue(SavedPositions))

\* saveStudentState(index, nodes)
saveStudentState(storage, index) ==
    saveSnapshot(saveItem(storage, studentKey(index, POSITIONS_KEY), JsonValue(SavedPositions)),
                 index, 1)

\* loadStudentState(index)
loadStudentState(storage, index) ==
    [skillGraphPositions |-> loadItem(storage, studentKey(index, POSITIONS_KEY)),
     skillChecklistState |-> loadItem(storage, studentKey(index, CHECKLIST_STATE_KEY)),
     sidebarDropdownState |-> loadItem(storage, studentKey(index, DROPDOWN_STATE_KEY)),
     skillSortState |-> loadItem(storage, studentKey(index, SORT_STATE_KEY)),
     skillGraphViewSettings |-> loadItem(storage, studentKey(index, SETTINGS_KEY)),
     skillGraphProgressState |-> loadItem(storage, studentKey(index, PROGRESS_STATE_KEY))]

\* switchToStudent(newIndex) after its early return: localStorage,
\* progressState and settings afterwards.
switchToStudentFrom(storage, active, newIndex) ==
    LET saved == IF active # Absent THEN saveStudentState(storage, active[1]) ELSE storage
        newState == loadStudentState(saved, newIndex)
        s1 == saveItem(saved, DROPDOWN_STATE_KEY,
                       JsonValue(orDefault(newState.sidebarDropdownState, EmptyMap)))
        s2 == saveItem(s1, SORT_STATE_KEY,
                       JsonValue(orDefault(newState.skillSortState, "alpha")))
        merged == orDefault(newState.skillGraphViewSettings, DEFAULT_SETTINGS)
        newViewSettings ==
            [merged EXCEPT !.offOffDisplay = normalizeOffOffDisplay(merged.offOffDisplay)]
        s3 == saveItem(s2, SETTINGS_KEY, JsonValue(newViewSettings))
        progress == orDefault(newState.skillGraphProgressState, EmptyMap)
        s4 == saveItem(s3, PROGRESS_STATE_KEY, JsonValue(progress))
        s5 == IF newState.skillGraphPositions.type # "null"
              THEN saveItem(s4, POSITIONS_KEY, newState.skillGraphPositions)
              ELSE s4
    IN [localStorage |-> saveItem(s5, ACTIVE_STUDENT_KEY, JsonValue(newIndex)),
        progressState |-> progress,
        settings |-> newViewSettings]

\* loadActiveStudent: typeof val === 'number' ? val : null
loadActiveStudent(storage) ==
    LET val == loadItem(storage, ACTIVE_STUDENT_KEY)
    IN IF val.type = "null" THEN Absent ELSE Holding(val.value)

\* getStatusForSkill
getStatusForSkill(progress, id) == normalizeProgressStatus(mapGet(progress, id))

agFilteredLinksBySource(masterLs, activeNodeIds) ==
    SelectSeq(masterLs, LAMBDA link : getNodeId(link.source) \in activeNodeIds)

\* filteredLinks: the master links with both ends among the active nodes.
agFilteredLinks(masterLs, activeNodeIds) ==
    SelectSeq(masterLs, LAMBDA link : /\ getNodeId(link.source) \in activeNodeIds
                                      /\ getNodeId(link.target) \in activeNodeIds)

\* updateActiveGraph: the nodes, the links and the suppressed ids handed to
\* redrawGraph.
updateActiveGraph(masterNs, masterLs, progress, sett) ==
    LET notStartedNodeIds ==
            {id \in Range(masterNs) : getStatusForSkill(progress, id) = NOT_STARTED}
        removeOffOffNodes == normalizeOffOffDisplay(sett.offOffDisplay) = "remove"
        activeNodeIds == IF removeOffOffNodes THEN Range(masterNs) \ notStartedNodeIds
                         ELSE Range(masterNs)
        activeNodes == SelectSeq(masterNs, LAMBDA id : id \in activeNodeIds)
        filteredLinks == agFilteredLinks(masterLs, activeNodeIds)
        activeLinks == IF sett.transitiveReduction
                       THEN transitiveReduceLinks(activeNodes, filteredLinks)
                       ELSE filteredLinks
    IN [activeNodes |-> activeNodes,
        activeLinks |-> activeLinks,
        suppressedNodeIds |-> IF removeOffOffNodes THEN {} ELSE notStartedNodeIds]

\* getViewSettings: the stored settings over the defaults.
getViewSettings(storage) ==
    LET merged == orDefault(loadItem(storage, SETTINGS_KEY), DEFAULT_SETTINGS)
    IN [merged EXCEPT !.offOffDisplay = normalizeOffOffDisplay(merged.offOffDisplay)]

\* ----------------------------------------------------------------- SpecApp
SlotIndexes == 0..(MaxSlots - 1)
\* masterNodes holds one node per skill of the checklist.
TrackedSkills == Range(nodes)

\* Every key the application writes.
AppKeys ==
    {POSITIONS_KEY, SETTINGS_KEY, PROGRESS_STATE_KEY, DROPDOWN_STATE_KEY, SORT_STATE_KEY,
     STUDENT_NAMES_KEY, ACTIVE_STUDENT_KEY}
    \cup {studentKey(i, k) : i \in SlotIndexes, k \in Range(snapshotKeys) \cup {POSITIONS_KEY}}

InitApp ==
    /\ localStorage = EmptyMap
    /\ progressState = EmptyMap
    /\ activeStudentIndex = Absent
    /\ lastCall = <<"initializeApp">>
    /\ progressWhenLeft = [i \in SlotIndexes |-> Absent]
    /\ nodes = [i \in 1..MaxTracked |-> i] /\ links = <<>>
    /\ settings = DEFAULT_SETTINGS
    /\ displayed = updateActiveGraph(nodes, links, progressState, settings)
    /\ trPc = "idle" /\ reduced = <<>> /\ reducedTwice = <<>>
    /\ pmPc = "idle" /\ pm = <<>> /\ depthById = <<>> /\ scoreById = <<>> /\ maxDepth = 0
    /\ TokIdle
    /\ BMIdle
    /\ CPMIdle
    /\ NLIdle

appOther == <<nodes, links, trVars, pmVars, tokVars, bmVars, cpmVars, nlVars>>

\* The checklist handler: setStatusForSkill(skillId, ...); saveProgressState()
SetStatus ==
    \E id \in TrackedSkills : \E status \in {NOT_STARTED, IN_PROGRESS, MASTERED} :
        /\ progressState' = setStatusForSkill(progressState, id, status)
        /\ localStorage' = saveItem(localStorage, PROGRESS_STATE_KEY, JsonValue(progressState'))
        /\ displayed' = updateActiveGraph(nodes, links, progressState', settings)
        /\ lastCall' = <<"setStatusForSkill">>
        /\ UNCHANGED <<appOther, activeStudentIndex, progressWhenLeft, settings>>

\* The clear button handler: progressState = {}; saveProgressState()
ClearProgress ==
    /\ progressState' = EmptyMap
    /\ localStorage' = saveItem(localStorage, PROGRESS_STATE_KEY, JsonValue(progressState'))
    /\ displayed' = updateActiveGraph(nodes, links, progressState', settings)
    /\ lastCall' = <<"saveProgressState">>
    /\ UNCHANGED <<appOther, activeStudentIndex, progressWhenLeft, settings>>

\* The slot button handler: switchToStudent(index)
SwitchToStudent ==
    \E newIndex \in SlotIndexes :
        /\ lastCall' = <<"switchToStudent", newIndex>>
        /\ IF activeStudentIndex = Holding(newIndex)
           THEN UNCHANGED <<localStorage, progressState, activeStudentIndex,
                            progressWhenLeft, settings, displayed>>
           ELSE /\ \E r \in {switchToStudentFrom(localStorage, activeStudentIndex, newIndex)} :
                      /\ localStorage' = r.localStorage
                      /\ progressState' = r.progressState
                      /\ settings' = r.settings
                /\ displayed' = updateActiveGraph(nodes, links, progressState', settings')
                /\ activeStudentIndex' = Holding(newIndex)
                /\ progressWhenLeft' =
                      IF activeStudentIndex = Absent THEN progressWhenLeft
                      ELSE [progressWhenLeft EXCEPT ![activeStudentIndex[1]] =
                                                        Holding(progressState)]
        /\ UNCHANGED appOther

\* finishRename: saveStudentNames(studentNames)
RenameStudent ==
    /\ localStorage' = saveItem(localStorage, STUDENT_NAMES_KEY, JsonValue(StudentNames))
    /\ lastCall' = <<"saveStudentNames">>
    /\ UNCHANGED <<appOther, progressState, activeStudentIndex, progressWhenLeft,
                   settings, displayed>>

\* The reset button handler: storage.clearAll(); window.location.reload().
\* The reloaded page reads its state from what is stored.
ResetEverything ==
    /\ localStorage' = clearAll(localStorage)
    /\ progressState' = orDefault(loadItem(localStorage', PROGRESS_STATE_KEY), EmptyMap)
    /\ activeStudentIndex' = loadActiveStudent(localStorage')
    /\ settings' = getViewSettings(localStorage')
    /\ displayed' = updateActiveGraph(nodes, links, progressState', settings')
    /\ lastCall' = <<"clearAll">>
    /\ UNCHANGED <<appOther, progressWhenLeft>>

NextApp == SetStatus \/ ClearProgress \/ SwitchToStudent \/ RenameStudent \/ ResetEverything

SpecApp == InitApp /\ [][NextApp]_vars

\* The transitive reduction toggle: settings.transitiveReduction = checked;
\* saveViewSettings(settings); updateActiveGraph()
ToggleTransitiveReduction ==
    /\ settings' = [settings EXCEPT !.transitiveReduction = ~ @]
    /\ localStorage' = saveItem(localStorage, SETTINGS_KEY, JsonValue(settings'))
    /\ displayed' = updateActiveGraph(nodes, links, progressState, settings')
    /\ lastCall' = <<"saveViewSettings">>
    /\ UNCHANGED <<appOther, progressState, activeStudentIndex, progressWhenLeft>>

\* The remove toggle: settings.offOffDisplay = checked ? 'remove' : 'dim';
\* saveViewSettings(settings); updateActiveGraph()
ToggleOffOffRemove ==
    /\ settings' = [settings EXCEPT !.offOffDisplay = IF @ = "remove" THEN "dim" ELSE "remove"]
    /\ localStorage' = saveItem(localStorage, SETTINGS_KEY, JsonValue(settings'))
    /\ displayed' = updateActiveGraph(nodes, links, progressState, settings')
    /\ lastCall' = <<"saveViewSettings">>
    /\ UNCHANGED <<appOther, progressState, activeStudentIndex, progressWhenLeft>>

\* ---------------------------------------------------------------- SpecSlots
\* Status changes and switches between student slots only.
NextSlots == SetStatus \/ ClearProgress \/ SwitchToStudent

SpecSlots == InitApp /\ [][NextSlots]_vars

\* ------------------------------------------------------------------- SpecAG
\* The application started on a master graph, then status changes and the two
\* toggles.  masterLinks holds only links between master nodes.
ShownNodeLists == {[i \in 1..k |-> i] : k \in 0..MaxShownNodes}
ShownLinkLists(ids) ==
    UNION {{[i \in 1..k |-> Link(f[i][1], f[i][2], i)] : f \in [1..k -> ids \X ids]} :
              k \in 0..MaxShownLinks}

InitAG ==
    /\ nodes \in ShownNodeLists
    /\ links \in ShownLinkLists(Range(nodes))
    /\ localStorage = EmptyMap
    /\ progressState = EmptyMap
    /\ activeStudentIndex = Absent
    /\ lastCall = <<"initializeApp">>
    /\ progressWhenLeft = [i \in SlotIndexes |-> Absent]
    /\ settings = DEFAULT_SETTINGS
    /\ displayed = updateActiveGraph(nodes, links, progressState, settings)
    /\ trPc = "idle" /\ reduced = <<>> /\ reducedTwice = <<>>
    /\ pmPc = "idle" /\ pm = <<>> /\ depthById = <<>> /\ scoreById = <<>> /\ maxDepth = 0
    /\ TokIdle
    /\ BMIdle
    /\ CPMIdle
    /\ NLIdle

NextAG == SetStatus \/ ClearProgress \/ ToggleTransitiveReduction \/ ToggleOffOffRemove

SpecAG == InitAG /\ [][NextAG]_vars

\* ------------------------------------------------- graph notions (claims)
\* The (source,target) keys of the links of ls that have both endpoints in S.
EdgesWithin(ls, S) ==
    {edgeKey(ls[i]) : i \in {j \in 1..Len(ls) : ls[j].source \in S /\ ls[j].target \in S}}

AllEdges(ls) == {edgeKey(ls[i]) : i \in 1..Len(ls)}

\* Pairs <<a,b>> with a path of at least one edge of E from a to b.
RECURSIVE PathsUpTo(_, _, _)
PathsUpTo(E, R, k) ==
    IF k = 0 THEN R
    ELSE LET longer == {<<pe[1][1], pe[2][2]>> : pe \in {q \in R \X E : q[1][2] = q[2][1]}}
         IN IF longer \subseteq R THEN R ELSE PathsUpTo(E, R \cup longer, k - 1)

Reachability(E) == PathsUpTo(E, E, Cardinality(E))

\* Pairs <<a,b>> with a path of at least two edges of E from a to b.
LongPaths(E) ==
    {<<pe[1][1], pe[2][2]>> : pe \in {q \in Reachability(E) \X E : q[1][2] = q[2][1]}}

HasCycle(E) == \E p \in Reachability(E) : p[1] = p[2]

EndpointsInNodes(ns, ls) ==
    \A i \in 1..Len(ls) : ls[i].source \in Range(ns) /\ ls[i].target \in Range(ns)

IsDagInput(ns, ls) == EndpointsInNodes(ns, ls) /\ ~HasCycle(AllEdges(ls))

\* The links of `links` at the positions in I, in input order.
InputLinksAt(I) == SelectSeq(links, LAMBDA l : l.uid \in I)

\* Positions of the first occurrence of each (source,target) key.
FirstOccurrences ==
    {i \in 1..Len(links) : \A j \in 1..(i - 1) : edgeKey(links[j]) # edgeKey(links[i])}

ValidPositions ==
    {i \in 1..Len(links) : links[i].source \in Range(nodes) /\ links[i].target \in Range(nodes)}

\* --------------------------------------------------------------- claims TR
\* C1: on a DAG input whose link endpoints are all in the node list, b is
\* reachable from a via the returned links iff it is via the input links.
C1_ReachabilityPreserved ==
    (trPc # "input" /\ IsDagInput(nodes, links))
        => Reachability(AllEdges(reduced)) = Reachability(AllEdges(links))

\* C1 witness: a DAG input from which the reducer dropped a redundant edge.
C1_Witness ==
    /\ trPc = "reduced"
    /\ IsDagInput(nodes, links)
    /\ AllEdges(reduced) # AllEdges(links)

\* C2: on a DAG input, reducing the reduced links returns the same links in
\* the same order.
C2_Idempotent ==
    (trPc = "twice" /\ IsDagInput(nodes, links)) => reducedTwice = reduced

\* C2 witness: the second reduction ran on a result that had lost an edge.
C2_Witness ==
    /\ trPc = "twice"
    /\ IsDagInput(nodes, links)
    /\ Len(reduced) > 0
    /\ AllEdges(reduced) # AllEdges(links)

OnePerKeyFirstKept ==
    /\ \A i, j \in 1..Len(reduced) : edgeKey(reduced[i]) = edgeKey(reduced[j]) => i = j
    /\ \A i \in 1..Len(reduced) : reduced[i].uid \in FirstOccurrences

\* C4 as stated: for every input, empty node list included.
C4_DedupEveryInput == trPc # "input" => OnePerKeyFirstKept

\* C4 amended: for every input with a non-empty node list.
C4_DedupNonEmptyNodes == (trPc # "input" /\ Len(nodes) > 0) => OnePerKeyFirstKept

\* C4 witness: a repeated key among the nodes, reduced to one link.
C4_Witness ==
    /\ trPc = "reduced"
    /\ Len(nodes) > 0
    /\ Len(reduced) > 0
    /\ \E i \in ValidPositions : i \notin FirstOccurrences

\* C23: on a DAG input the returned links are the first occurrences of the
\* keys that have no path of two or more edges from source to target, in input
\* order; such a path exists exactly when another direct successor of the
\* source reaches the target; and no returned edge has a longer path through
\* returned edges.
ViaOtherSuccessor(E, R) ==
    {e \in E : \E w \in {f[2] : f \in {g \in E : g[1] = e[1]}} :
                  w # e[2] /\ <<w, e[2]>> \in R}
DagReduction(E, R, long) ==
    /\ reduced = InputLinksAt({i \in FirstOccurrences : edgeKey(links[i]) \notin long})
    /\ E \cap long = ViaOtherSuccessor(E, R)
    /\ AllEdges(reduced) \cap LongPaths(AllEdges(reduced)) = {}
C23_DropsExactlyImpliedEdges ==
    (trPc # "input" /\ IsDagInput(nodes, links))
        => \A E \in {AllEdges(links)} : \A R \in {Reachability(E)} :
              DagReduction(E, R, {<<pe[1][1], pe[2][2]>> :
                                    pe \in {q \in R \X E : q[1][2] = q[2][1]}})

\* C23 witness: of the DAG links u->v, u->w, w->v, given in this order, the
\* first is dropped and the other two are returned in input order.
C23_Witness ==
    /\ trPc = "reduced"
    /\ IsDagInput(nodes, links)
    /\ Len(links) = 3
    /\ edgeKey(links[1]) \in LongPaths(AllEdges(links))
    /\ reduced = <<links[2], links[3]>>

\* --------------------------------------------------------------- claims PM
ValidEdges == EdgesWithin(links, Range(nodes))

\* The ids that are neither on a cycle nor downstream of one: the subgraph of
\* such an id and its ancestors is acyclic.
AcyclicPart ==
    LET R == Reachability(ValidEdges)
        onCycle == {c \in Range(nodes) : <<c, c>> \in R}
    IN {id \in Range(nodes) : id \notin onCycle /\ \A c \in onCycle : <<c, id>> \notin R}

C6_TerminatesWithEntries ==
    [][/\ pmPc' # "threw"
       /\ pmPc' = "kahn" =>
             /\ pm'.head <= Len(pm'.queue) + 1
             /\ Len(pm'.queue) <= Len(nodes)
       /\ (pmPc = "kahn" /\ pmPc' = "kahn") => pm'.head > pm.head
       /\ pmPc' = "done" =>
             /\ DOMAIN depthById' = Range(nodes)
             /\ DOMAIN scoreById' = Range(nodes)]_vars

\* C6 witness: a call returned on a graph with a self-loop, a duplicate link
\* and a link that names an id absent from the node list.
C6_Witness ==
    /\ pmPc = "done"
    /\ \E i \in 1..Len(links) : links[i].source = links[i].target /\ i \in ValidPositions
    /\ \E i \in 1..Len(links) : i \notin FirstOccurrences
    /\ \E i \in 1..Len(links) : i \notin ValidPositions
    /\ DOMAIN depthById = Range(nodes)

\* The two-node cycle: nodes A, B and exactly the edges A->B and B->A.
TwoNodeCycle ==
    /\ Len(nodes) = 2
    /\ Len(links) = 2
    /\ AllEdges(links) = {<<nodes[1], nodes[2]>>, <<nodes[2], nodes[1]>>}

InUnitInterval(q) == q[2] > 0 /\ 0 <= q[1] /\ q[1] <= q[2]
RatLeq(p, q) == p[1] * q[2] <= q[1] * p[2]
RatEq(p, q) == p[1] * q[2] = q[1] * p[2]

\* C8: every returned progression score lies in [0, 1].
C8_ScoreBounds ==
    pmPc = "done" => \A id \in Range(nodes) : InUnitInterval(scoreById[id])

\* C8 witness: scores 0, 1 and one strictly between them.
C8_Witness ==
    /\ pmPc = "done"
    /\ \E a, b, c \in Range(nodes) :
          /\ scoreById[a][1] = 0
          /\ scoreById[b][1] = scoreById[b][2]
          /\ 0 < scoreById[c][1] /\ scoreById[c][1] < scoreById[c][2]

Floor1(S) == IF S = {} THEN 1 ELSE Max2(1, MaxOf(S))

\* The raw scores of the nodes, as a sequence along the node list, from the
\* in- and out-degrees inD and outD (sequences along the node list): for each
\* node 0.70 depthNorm + 0.45 inNorm - 0.25 outNorm of the returned depths,
\* times 100 mD mI mO (one factor for all nodes).
RawScoresFrom(inD, outD) ==
    LET mD == Floor1({depthById[nodes[i]] : i \in DOMAIN inD})
        mI == Floor1(Range(inD))
        mO == Floor1(Range(outD))
    IN [i \in DOMAIN inD |-> 70 * depthById[nodes[i]] * mI * mO + 45 * inD[i] * mD * mO
                             - 25 * outD[i] * mD * mI]

\* The degrees count the links with both endpoints in the node list.
RawScores ==
    LET valid == ValidPositions
    IN RawScoresFrom(
         [i \in 1..Len(nodes) |-> Cardinality({j \in valid : links[j].target = nodes[i]})],
         [i \in 1..Len(nodes) |-> Cardinality({j \in valid : links[j].source = nodes[i]})])

Dequeued == Range(pm.queue)
Prerequisites(id) ==
    {links[l].source : l \in {k \in 1..Len(links) :
                                 links[k].target = id /\ links[k].source \in Range(nodes)}}
Place(id) == CHOOSE i \in 1..Len(nodes) : nodes[i] = id
DepthAfter(P) == IF P = {} THEN 0 ELSE 1 + MaxOf({depthById[p] : p \in P})

DepthSeenBy(id, p) ==
    IF p \in Dequeued \/ Place(p) < Place(id) THEN depthById[p]
    ELSE DepthAfter(Prerequisites(p) \cap Dequeued)
FallbackDepths ==
    \A id \in Range(nodes) \ Dequeued :
        /\ Prerequisites(id) # {}
        /\ depthById[id] = 1 + MaxOf({DepthSeenBy(id, p) : p \in Prerequisites(id)})
RECURSIVE LongestAlong(_, _)
LongestAlong(len, i) ==
    IF i > Len(pm.queue) THEN len
    ELSE LET P == Prerequisites(pm.queue[i])
         IN LongestAlong(len @@ (pm.queue[i] :>
                                   IF P = {} THEN 0 ELSE 1 + MaxOf({len[p] : p \in P})),
                         i + 1)
DepthsAreLongest ==
    /\ \A i \in 1..Len(pm.queue) :
          Prerequisites(pm.queue[i]) \subseteq {pm.queue[j] : j \in 1..(i - 1)}
    /\ \A longest \in {LongestAlong(<<>>, 1)} :
          \A id \in Dequeued : depthById[id] = longest[id]
    /\ \A id \in Range(nodes) \ Dequeued : Prerequisites(id) \ Dequeued # {}

\* C25: when the function returns, every node the Kahn pass dequeued has as
\* depth the number of edges of the longest path from a node without
\* prerequisites to it, whatever links are repeated and whatever cycles lie
\* elsewhere.  A node that was not dequeued has a prerequisite that was not
\* dequeued either (it lies on a cycle or below one), so on a DAG this is the
\* depth of every node.
C25_DepthIsLongestPath == [][pmPc' = "done" => DepthsAreLongest']_vars

\* C25 witness: a DAG of three nodes with u->w as well as u->v->w: every node
\* was dequeued and w has depth 2.
C25_Witness ==
    /\ pmPc = "done"
    /\ Len(nodes) = 3
    /\ Dequeued = Range(nodes)
    /\ Cardinality(ValidEdges) = 3
    /\ \E w \in Range(nodes) : depthById[w] = 2 /\ Cardinality(Prerequisites(w)) = 2

\* -------------------------------------------------------------- claims Tok
\* The token is a range PREFIX N-M: prefix, first number, dash and last number
\* are all there, and a second prefix, if any, equals the first up to case.
IsSamePrefixRange ==
    /\ tokShape.prefix # <<>>
    /\ tokShape.first >= 0
    /\ tokShape.dash # <<>>
    /\ tokShape.last >= 0
    /\ \/ tokShape.prefix2 = <<>>
       \/ toUpperCase(SelectSeq(tokShape.prefix2, IsLetter)) = toUpperCase(tokShape.prefix)

\* C10: a range token with one prefix expands to |M - N| + 1 ids "PREFIX k",
\* from N to M inclusive, stepping +1 when N <= M and -1 when N > M.
C10_RangeExpansion ==
    (tokPc = "expanded" /\ IsSamePrefixRange) =>
        LET N == tokShape.first
            M == tokShape.last
            P == toUpperCase(tokShape.prefix)
        IN /\ Len(expanded) = Abs(M - N) + 1
           /\ \A k \in 1..Len(expanded) :
                 expanded[k] = P \o <<" ">> \o
                     DecimalText(IF N <= M THEN N + (k - 1) ELSE N - (k - 1))
           /\ expanded[1] = P \o <<" ">> \o DecimalText(N)
           /\ expanded[Len(expanded)] = P \o <<" ">> \o DecimalText(M)

\* C10 witness: a descending range written with a second prefix and leading
\* zeros (ADT 005 - adt2 and the like), expanded to four ids.
C10_Witness ==
    /\ tokPc = "expanded"
    /\ IsSamePrefixRange
    /\ tokShape.prefix2 # <<>>
    /\ tokShape.zeros > 0
    /\ tokShape.first = 5 /\ tokShape.last = 2
    /\ Len(expanded) = 4

\* --------------------------------------------------------------- claims BM
\* The ids an atom of an entry stands for, in order.
AtomIdSeq(at) ==
    CASE at.kind = "code" -> <<AdtId(at.a)>>
      [] at.kind = "range" ->
           [i \in 1..(Abs(at.b - at.a) + 1) |->
               AdtId(IF at.a <= at.b THEN at.a + (i - 1) ELSE at.a - (i - 1))]
      [] OTHER -> <<>>

\* The ids an entry stands for, in order, were it not for the word "none".
EntryIdSeq(e) ==
    IF e.kind = "nonecode" THEN <<NoneId>> ELSE AtomIdSeq(e.left) \o AtomIdSeq(e.right)

\* seq without repeated members (the first occurrence stays), valid ids only.
RECURSIVE FirstValidFrom(_, _, _)
FirstValidFrom(seq, i, acc) ==
    IF i > Len(seq) THEN acc
    ELSE FirstValidFrom(seq, i + 1,
            IF seq[i] \in validNodeIds /\ seq[i] \notin Range(acc)
            THEN Append(acc, seq[i]) ELSE acc)
FirstValid(seq) == FirstValidFrom(seq, 1, <<>>)

\* The step reads and processes one raw entry (bm'.entry) of the target.
IsEntryStep == bmPc = "entries" /\ bmPc' = "entries" /\ bm'.reads = bm.reads + 1

ContributesNothing == bm'.groups = bm.groups /\ edgeTypeByKey' = edgeTypeByKey

\* C11 as stated: an entry that is empty, starts with "none" in any case, has
\* no recognised shape or stands only for ids outside the valid set adds no
\* group and no edge type (and the step is taken without an error).
C11_DroppedEntryContributesNothing ==
    [][(/\ IsEntryStep
        /\ \/ bm'.entry.kind \in {"blank", "none", "nonecode"}
           \/ Range(EntryIdSeq(bm'.entry)) \cap validNodeIds = {})
       => ContributesNothing]_vars

\* C11 amended: as C11, with "starts with none" read as the word none: the
\* letters none followed by the end of the entry or by a character that is
\* not a letter, a digit or an underscore.
C11_DroppedEntryWordNone ==
    [][(/\ IsEntryStep
        /\ \/ bm'.entry.kind \in {"blank", "none"}
           \/ Range(EntryIdSeq(bm'.entry)) \cap validNodeIds = {})
       => ContributesNothing]_vars

\* C11 witness: after an entry that added a group, an OR entry that stands
\* only for ids outside the valid set was read and added nothing.
C11_Witness ==
    /\ bmPc = "entries"
    /\ bm.reads = 2
    /\ bm.entry.kind = "or"
    /\ EntryIdSeq(bm.entry) # <<>>
    /\ Range(EntryIdSeq(bm.entry)) \cap validNodeIds = {}
    /\ Len(bm.groups) = 1

\* The target has a singleton group of member m among the groups gs.
HasSingleton(gs, m) == \E i \in 1..Len(gs) : gs[i] = <<m>>

C13_RequiredIsPermanent ==
    [][/\ \A k \in DOMAIN edgeTypeByKey :
             (bmPc # "idle" /\ edgeTypeByKey[k] = "required")
                 => (k \in DOMAIN edgeTypeByKey' /\ edgeTypeByKey'[k] = "required")
       /\ bmPc' = "done" =>
             \A t \in IdUniverse : \A m \in IdUniverse :
                LET key == m \o <<"=", ">">> \o t
                IN (key \in DOMAIN edgeTypeByKey' /\ edgeTypeByKey'[key] = "required")
                     <=> (t \in DOMAIN groupsByTarget' /\ HasSingleton(groupsByTarget'[t], m))]_vars

\* C13 witness: the model was returned for a target with an OR group holding
\* a source and, from a later entry, the singleton group of that source.
C13_Witness ==
    /\ bmPc = "done"
    /\ \E t \in DOMAIN groupsByTarget :
          LET gs == groupsByTarget[t]
          IN /\ Len(gs) = 2 /\ Len(gs[1]) = 2 /\ Len(gs[2]) = 1
             /\ gs[2][1] \in Range(gs[1])
             /\ edgeTypeByKey[gs[2][1] \o <<"=", ">">> \o t] = "required"

\* C14: the returned model names valid ids only: every key of groupsByTarget
\* and every member of every group is valid, every group is non-empty and has
\* no repeated member; every link kept in masterLinks has valid endpoints.
C14_OnlyValidIds ==
    bmPc \in {"done", "linked"} =>
        /\ DOMAIN groupsByTarget \subseteq validNodeIds
        /\ \A t \in DOMAIN groupsByTarget : \A i \in 1..Len(groupsByTarget[t]) :
              LET group == groupsByTarget[t][i]
              IN /\ Len(group) > 0
                 /\ Range(group) \subseteq validNodeIds
                 /\ Cardinality(Range(group)) = Len(group)
        /\ \A i \in 1..Len(masterLinks) :
              masterLinks[i].source \in validNodeIds /\ masterLinks[i].target \in validNodeIds

\* C14 witness: a model was returned whose target has the groups [ADT 1] and
\* [ADT 3] while ADT 2 is not valid, and an edge from a valid id to an unknown
\* id was left out of masterLinks.
C14_Witness ==
    /\ bmPc = "linked"
    /\ Len(links) = 1 /\ links[1].source \in validNodeIds /\ masterLinks = <<>>
    /\ AdtId(2) \notin validNodeIds
    /\ \E t \in DOMAIN groupsByTarget : groupsByTarget[t] = <<<<AdtId(1)>>, <<AdtId(3)>>>>

\* C26: an entry that is not an OR entry adds one singleton group per valid id
\* it expands to, in expansion order, after the groups of the earlier entries,
\* and every such id is "required" for the target.
ValidOnly(seq) == SelectSeq(seq, LAMBDA id : id \in validNodeIds)
GroupsHolding(gs, m) == {i \in 1..Len(gs) : m \in Range(gs[i])}
ModelPairs ==
    {p \in IdUniverse \X DOMAIN groupsByTarget : GroupsHolding(groupsByTarget[p[2]], p[1]) # {}}
C28_EdgeTypesMatchGroups ==
    bmPc = "done" =>
        /\ DOMAIN edgeTypeByKey = {p[1] \o <<"=", ">">> \o p[2] : p \in ModelPairs}
        /\ \A p \in ModelPairs :
              (edgeTypeByKey[p[1] \o <<"=", ">">> \o p[2]] = "or")
                 <=> \A i \in GroupsHolding(groupsByTarget[p[2]], p[1]) :
                        Len(groupsByTarget[p[2]][i]) > 1
        /\ \A k \in DOMAIN edgeTypeByKey : edgeTypeByKey[k] \in {"or", "required"}

\* C28 witness: a returned model with two targets in which one source is in
\* an OR group only and another is both in an OR group and a singleton.
C28_Witness ==
    /\ bmPc = "done"
    /\ Cardinality(DOMAIN groupsByTarget) = 2
    /\ \E t \in DOMAIN groupsByTarget : \E s, r \in IdUniverse :
          /\ s # r
          /\ groupsByTarget[t] = <<<<s, r>>, <<r>>>>
          /\ edgeTypeByKey[s \o <<"=", ">">> \o t] = "or"
          /\ edgeTypeByKey[r \o <<"=", ">">> \o t] = "required"

\* ------------------------------------------------------ claims: the scenario
\* The scenario's A, B, C are the first, second and third node.  Its results:
\* once built, C has the groups [[A], [B, A]], A=>C is required and B=>C is
\* or; once computed with A alone mastered, C has 2 of 2 groups satisfied,
\* readiness 1, and is ready now.
ScenarioResults(A, B, C) ==
    /\ bmPc = "done" =>
          /\ C \in DOMAIN groupsByTarget
          /\ groupsByTarget[C] = <<<<A>>, <<B, A>>>>
          /\ edgeTypeKey(A, C) \in DOMAIN edgeTypeByKey
          /\ edgeTypeByKey[edgeTypeKey(A, C)] = "required"
          /\ edgeTypeKey(B, C) \in DOMAIN edgeTypeByKey
          /\ edgeTypeByKey[edgeTypeKey(B, C)] = "or"
    /\ (cpmPc = "computed" /\ progressStateById = [s \in {A} |-> MASTERED]) =>
          /\ metrics.satisfiedById[C] = 2
          /\ metrics.totalById[C] = 2
          /\ RatEq(metrics.readinessById[C], <<1, 1>>)
          /\ C \in Range(metrics.readyNowIds)

\* An id written as the token parser writes a skill code: upper-case prefix,
\* one space, the number without leading zeros.
IsWrittenCode(id) == expandSkillToken(id) = <<id>>

\* C15 as stated: the scenario's results hold for the ids "A", "B", "C".
C15_ScenarioLiteralIds ==
    nodes = LetterIds => ScenarioResults(nodes[1], nodes[2], nodes[3])

\* C15 amended: the scenario's results hold when A, B and C are skill codes
\* "PREFIX N" and neither A nor B begins with the word none.
C15_ScenarioSkillCodes ==
    (/\ \A i \in 1..3 : IsWrittenCode(nodes[i])
     /\ ~startsWithNone(nodes[1]) /\ ~startsWithNone(nodes[2]))
        => ScenarioResults(nodes[1], nodes[2], nodes[3])

\* C15 witness: the scenario ran to its end on ADT 1, ADT 2, ADT 3 with ADT 1
\* alone mastered, and ADT 3 is the one skill ready now besides ADT 2.
C15_Witness ==
    /\ cpmPc = "computed"
    /\ nodes = <<AdtId(1), AdtId(2), AdtId(3)>>
    /\ progressStateById = [s \in {AdtId(1)} |-> MASTERED]
    /\ groupsByTarget[AdtId(3)] = <<<<AdtId(1)>>, <<AdtId(2), AdtId(1)>>>>
    /\ metrics.satisfiedById[AdtId(3)] = 2
    /\ metrics.readyNowIds = <<AdtId(2), AdtId(3)>>

\* ---------------------------------------------- claims: computeProgressMetrics
\* The arguments of the latest call as the caller holds them, read without the
\* calculator: the stored status of a skill, the groups listed for a node, and
\* whether a group has a member stored as mastered.
StoredStatus(progress, s) == IF s \in DOMAIN progress THEN progress[s] ELSE Missing
GroupsFor(n) == IF n \in DOMAIN groupsByTarget THEN groupsByTarget[n] ELSE <<>>
HasMastered(progress, group) ==
    \E i \in 1..Len(group) : StoredStatus(progress, group[i]) = MASTERED
MasteredGroups(progress, n) ==
    {i \in 1..Len(GroupsFor(n)) : HasMastered(progress, GroupsFor(n)[i])}
Computed == cpmPc \in {"computed", "again", "changed"}

\* C16: for every node, totalById is the number of its groups, satisfiedById
\* the number of those groups with a member stored as mastered, readinessById
\* is satisfied/total, or 1 when the node has no group; so
\* 0 <= satisfied <= total and 0 <= readiness <= 1.
C16_TotalsSatisfiedReadiness ==
    Computed =>
        \A n \in Range(nodes) :
            LET total == metrics.totalById[n]
                satisfied == metrics.satisfiedById[n]
                readiness == metrics.readinessById[n]
            IN  /\ total = Len(GroupsFor(n))
                /\ satisfied = Cardinality(MasteredGroups(progressStateById, n))
                /\ IF total = 0 THEN RatEq(readiness, <<1, 1>>)
                                ELSE RatEq(readiness, <<satisfied, total>>)
                /\ 0 <= satisfied /\ satisfied <= total
                /\ RatLeq(<<0, 1>>, readiness) /\ RatLeq(readiness, <<1, 1>>)

\* C16 witness: a node with two groups, one with a mastered member and one
\* whose only member is in progress: satisfied 1 of 2, readiness 1/2.
C16_Witness ==
    /\ cpmPc = "computed"
    /\ \E n \in Range(nodes) :
          /\ Len(GroupsFor(n)) = 2
          /\ \E i \in 1..2 :
                /\ Len(GroupsFor(n)[i]) = 1
                /\ StoredStatus(progressStateById, GroupsFor(n)[i][1]) = IN_PROGRESS
          /\ metrics.satisfiedById[n] = 1
          /\ metrics.readinessById[n] = <<1, 2>>

\* C17: a node is in readyNowIds exactly when its stored status is not mastered
\* and each of its groups has a mastered member; so a node with no group is in
\* it unless mastered, and a mastered node never is.
C17_ReadyNowIff ==
    Computed =>
        \A n \in Range(nodes) :
            (n \in Range(metrics.readyNowIds))
                <=> (/\ StoredStatus(progressStateById, n) # MASTERED
                     /\ \A i \in 1..Len(GroupsFor(n)) :
                           HasMastered(progressStateById, GroupsFor(n)[i]))

\* C17 witness: of two nodes with all groups satisfied, the mastered one is
\* left out of readyNowIds and the one without groups, in progress, is in it.
C17_Witness ==
    /\ cpmPc = "computed"
    /\ \E n, m \in Range(nodes) :
          /\ StoredStatus(progressStateById, n) = MASTERED
          /\ Len(GroupsFor(n)) = 1 /\ HasMastered(progressStateById, GroupsFor(n)[1])
          /\ GroupsFor(m) = <<>>
          /\ StoredStatus(progressStateById, m) = IN_PROGRESS
          /\ metrics.readyNowIds = <<m>>

\* C18: when one skill that was not mastered is marked mastered and nothing
\* else changes, no node's satisfied count or readiness goes down.
C18_ReadinessMonotone ==
    [][cpmPc' = "changed" =>
          /\ \E s \in Range(nodes) :
                /\ StoredStatus(progressStateById, s) # MASTERED
                /\ StoredStatus(progressStateById', s) = MASTERED
                /\ \A o \in Range(nodes) \ {s} :
                      StoredStatus(progressStateById', o) = StoredStatus(progressStateById, o)
          /\ nodes' = nodes /\ groupsByTarget' = groupsByTarget
          /\ \A n \in Range(nodes) :
                /\ metrics.satisfiedById[n] <= metrics'.satisfiedById[n]
                /\ RatLeq(metrics.readinessById[n], metrics'.readinessById[n])]_vars

\* C18 witness: marking a skill mastered raised a node's readiness from 0 to
\* 1/2 while another group of that node stayed unsatisfied.
C18_Witness ==
    /\ cpmPc = "changed"
    /\ \E n \in Range(nodes) :
          /\ metricsBefore.readinessById[n] = <<0, 2>>
          /\ metrics.readinessById[n] = <<1, 2>>

\* C19: a skill with no stored status, or with one that is neither
\* "in-progress" nor "mastered", has state "not-started", is counted as not
\* started, and does not make a group satisfied.
Recognised(progress, s) == StoredStatus(progress, s) \in {IN_PROGRESS, MASTERED}
C19_UnknownIsNotStarted ==
    Computed =>
        /\ \A n \in Range(nodes) :
              ~Recognised(progressStateById, n) => metrics.stateById[n] = NOT_STARTED
        /\ metrics.counts[NOT_STARTED]
              = Cardinality({n \in Range(nodes) : ~Recognised(progressStateById, n)})
        /\ \A n \in Range(nodes) :
              metrics.satisfiedById[n]
                 <= Cardinality({i \in 1..Len(GroupsFor(n)) :
                        \E j \in 1..Len(GroupsFor(n)[i]) :
                            Recognised(progressStateById, GroupsFor(n)[i][j])})

\* C19 witness: one node has no stored status, the other an unknown one, and
\* a group made of these two skills is not satisfied.
C19_Witness ==
    /\ cpmPc = "computed"
    /\ Len(nodes) = 2
    /\ StoredStatus(progressStateById, 1) = Missing
    /\ StoredStatus(progressStateById, 2) = "done"
    /\ metrics.counts[NOT_STARTED] = 2
    /\ \E n \in Range(nodes) :
          /\ GroupsFor(n) = <<<<1, 2>>>>
          /\ metrics.satisfiedById[n] = 0

NodesStored(statuses) ==
    Cardinality({i \in 1..Len(nodes) :
                    StoredStatus(progressStateById, nodes[i]) \in statuses})
C21_CountsTally ==
    Computed =>
        /\ metrics.counts[NOT_STARTED] + metrics.counts[IN_PROGRESS]
              + metrics.counts[MASTERED] = Len(nodes)
        /\ metrics.counts[MASTERED] = NodesStored({MASTERED})
        /\ metrics.counts[IN_PROGRESS] = NodesStored({IN_PROGRESS})
        /\ metrics.counts[NOT_STARTED] = NodesStored({Missing, "done"})
        /\ metrics.counts["readyNow"] = Len(metrics.readyNowIds)

\* C21 witness: two nodes, one mastered and one in progress and ready now:
\* the counts are 0, 1, 1 and readyNow 1.
C21_Witness ==
    /\ cpmPc = "computed"
    /\ Len(nodes) = 2
    /\ metrics.counts[MASTERED] = 1
    /\ metrics.counts[IN_PROGRESS] = 1
    /\ metrics.counts[NOT_STARTED] = 0
    /\ metrics.counts["readyNow"] = 1

\* ------------------------------------------------- claims: calculateNodeLevels
\* C27: whatever inDegree, outLinks and level the node objects hold when
\* calculateNodeLevels(nodes, links) is called, the levels it leaves on them
\* and its return value are those of the call on fresh node objects; a second
\* call with the same nodes and links gives the same levels and return value
\* as the first.
C27_NoStaleScratchState ==
    /\ nlPc \in {"levelled", "again"} =>
          \A fresh \in {calculateNodeLevels(FreshObjs(nodes), nodes, links)} :
              /\ levelsOf(nlObjs) = levelsOf(fresh.objs)
              /\ nlRet = fresh.ret
    /\ nlPc = "again" =>
          /\ levelsOf(nlObjs) = nlBefore.levels
          /\ nlRet = nlBefore.ret

\* C27 witness: the call returned on node objects that held the levels of an
\* earlier run on a chain (0, 1, 2); under the links of this call the second
\* node, on a cycle below a root, has level 1 and the third is a root.
C27_Witness ==
    /\ nlPc = "levelled"
    /\ Len(nodes) = 3
    /\ links = <<Link(1, 2, 1), Link(2, 2, 2)>>
    /\ nlBefore.levels = <<Holding(0), Holding(1), Holding(2)>>
    /\ levelsOf(nlObjs) = <<Holding(0), Holding(1), Holding(0)>>
    /\ nlRet = 1

\* --------------------------------------- claims: storage and student slots
\* C22 as stated: after the reset handler ran storage.clearAll(), localStorage
\* holds no entry under a key that the application writes.
C22_ResetLeavesNoAppEntry ==
    lastCall = <<"clearAll">> => DOMAIN localStorage \cap AppKeys = {}

NotStarted(id) ==
    id \notin DOMAIN progressState \/ progressState[id] \notin {IN_PROGRESS, MASTERED}
C29_DisplayedGraphClosed ==
    /\ \A i \in 1..Len(displayed.activeLinks) :
          /\ displayed.activeLinks[i] \in Range(links)
          /\ displayed.activeLinks[i].source \in Range(displayed.activeNodes)
          /\ displayed.activeLinks[i].target \in Range(displayed.activeNodes)
    /\ Range(displayed.activeNodes) \subseteq Range(nodes)
    /\ settings.offOffDisplay = "remove" =>
          /\ \A id \in Range(displayed.activeNodes) : ~ NotStarted(id)
          /\ displayed.suppressedNodeIds = {}
    /\ settings.offOffDisplay = "dim" =>
          /\ displayed.activeNodes = nodes
          /\ displayed.suppressedNodeIds = {id \in Range(nodes) : NotStarted(id)}

\* C29 witness: in 'remove' mode with the reduction on, node 2 is not-started
\* and the master link from 1 to 2 is not displayed.
C29_Witness ==
    /\ nodes = <<1, 2>>
    /\ links = <<Link(1, 2, 1)>>
    /\ settings = [transitiveReduction |-> TRUE, offOffDisplay |-> "remove"]
    /\ progressState = mapSet(EmptyMap, 1, MASTERED)
    /\ displayed.activeNodes = <<1>>
    /\ displayed.activeLinks = <<>>
    /\ displayed.suppressedNodeIds = {}

====
